---- MODULE Spec2Model ----
(***************************************************************************)
(* Model of fourdst::config::Config<T> (src/config/include/fourdst/config/ *)
(* base.h): one Session wrapping a schema value T, its root name, its      *)
(* lifecycle state and its root-name load policy, together with the files  *)
(* it saves to and loads from.  The TOML engine (reflect-cpp) is modelled  *)
(* by what it does to a document: writing lays the fields of T out as      *)
(* tagged TOML values in declaration order, reading looks every schema     *)
(* field up by key and checks its TOML type and array length.              *)
(***************************************************************************)
EXTENDS Integers, Sequences, FiniteSets, TLC

(***************************************************************************)
(* Bounds                                                                  *)
(***************************************************************************)
NumPaths == 1
NumVariants == 2

PathNames == <<"a.toml", "b.toml", "c.toml", "d.toml">>
Paths == {PathNames[i] : i \in 1..NumPaths}
NoPath == ""

RootNames == {"main", "other"}
\* what a read through the end iterator of an empty map may yield
Garbage == "<garbage>"

(***************************************************************************)
(* The schema T: three fields in declaration order, as in the README's     *)
(* example structs (an int, a string, a fixed-size array).                 *)
(***************************************************************************)
ArrayLen == 3

Schema ==
    << [name |-> "gravity", type |-> "integer", len |-> 0],
       [name |-> "name",    type |-> "string",  len |-> 0],
       [name |-> "flags",   type |-> "array",   len |-> ArrayLen] >>

\* T{} : the default member initialisers
DefaultT == [gravity |-> 10, name |-> "my_simulation", flags |-> [i \in 1..ArrayLen |-> 0]]

Variant(i) ==
    [gravity |-> 10 + i,
     name    |-> IF i % 2 = 1 THEN "run" ELSE "my_simulation",
     flags   |-> [k \in 1..ArrayLen |-> IF k = 1 THEN i ELSE 0]]

TValues == {DefaultT} \cup {Variant(i) : i \in 1..NumVariants}

(***************************************************************************)
(* TOML values and documents.  A table is a sequence of [key, val] entries *)
(* in file order; a document is a table of root entries.                   *)
(***************************************************************************)
TInt(n)   == [kind |-> "integer", val |-> n]
TStr(s)   == [kind |-> "string",  val |-> s]
TArr(seq) == [kind |-> "array",   val |-> seq]
TTab(ent) == [kind |-> "table",   val |-> ent]
Entry(k, v) == [key |-> k, val |-> v]

Missing   == [kind |-> "missing",   roots |-> <<>>]
Malformed == [kind |-> "malformed", roots |-> <<>>]
Doc(roots) == [kind |-> "toml", roots |-> roots]

Keys(entries) == {entries[i].key : i \in DOMAIN entries}
HasKey(entries, k) == k \in Keys(entries)
Lookup(entries, k) == entries[CHOOSE i \in DOMAIN entries : entries[i].key = k].val

\* rfl::toml::write of one T: every field, in declaration order
WriteT(v) ==
    TTab(<< Entry("gravity", TInt(v.gravity)),
            Entry("name",    TStr(v.name)),
            Entry("flags",   TArr([i \in DOMAIN v.flags |-> TInt(v.flags[i])])) >>)

\* rfl::toml::write(wrapper) for the single-entry wrapper {root: content}
\* variant: the unused default_instance of save also lands in the wrapper
TomlWrite_with_default(root, content) ==
    Doc(<< Entry(root, WriteT(content)), Entry("default", WriteT(DefaultT)) >>)

TomlWrite(root, content) == Doc(<< Entry(root, WriteT(content)) >>)

\* does the TOML value tv fit the schema field f
FieldFits(f, tv) ==
    CASE f.type = "integer" -> tv.kind = "integer"
      [] f.type = "string"  -> tv.kind = "string"
      [] f.type = "array"   -> /\ tv.kind = "array"
                               /\ Len(tv.val) = f.len
                               /\ \A i \in DOMAIN tv.val : tv.val[i].kind = "integer"

\* reading one T from a TOML value: a table holding every schema field with
\* the right type; with noExtraFields a key outside the schema is an error,
\* without it the key is skipped
ReadsAsT(tv, noExtraFields) ==
    /\ tv.kind = "table"
    /\ \A i \in DOMAIN Schema :
           /\ HasKey(tv.val, Schema[i].name)
           /\ FieldFits(Schema[i], Lookup(tv.val, Schema[i].name))
    /\ noExtraFields => Keys(tv.val) \subseteq {Schema[i].name : i \in DOMAIN Schema}

ReadT(tv) ==
    [gravity |-> Lookup(tv.val, "gravity").val,
     name    |-> Lookup(tv.val, "name").val,
     flags   |-> LET a == Lookup(tv.val, "flags").val
                 IN  [i \in DOMAIN a |-> a[i].val]]

\* rfl::toml::load<std::unordered_map<std::string, T>>(path): an error, or
\* the map of every root entry read as a T
TomlLoad(file, noExtraFields) ==
    IF file.kind = "toml" /\ \A i \in DOMAIN file.roots : ReadsAsT(file.roots[i].val, noExtraFields)
    THEN [ok |-> TRUE,
          value |-> [i \in DOMAIN file.roots |->
                        Entry(file.roots[i].key, ReadT(file.roots[i].val))]]
    ELSE [ok |-> FALSE, value |-> <<>>]

\* the call in Config::load passes no processor: extra fields are skipped
rfl_toml_load(file) == TomlLoad(file, FALSE)

(***************************************************************************)
(* The files the environment may put in place.                             *)
(***************************************************************************)
GoodTable == WriteT(DefaultT).val

EmptyDoc        == Doc(<<>>)
TwoRootsDoc     == Doc(<< Entry("main", WriteT(DefaultT)), Entry("other", WriteT(Variant(1))) >>)
UnknownKeyDoc   == Doc(<< Entry("main", TTab(GoodTable \o << Entry("bogus", TInt(1)) >>)) >>)
InvalidTypeDoc  == Doc(<< Entry("main", TTab(<< Entry("gravity", TStr("ten")),
                                                 GoodTable[2], GoodTable[3] >>)) >>)
ArraySizeDoc    == Doc(<< Entry("main", TTab(<< GoodTable[1], GoodTable[2],
                                                 Entry("flags", TArr([k \in 1..(ArrayLen - 1) |-> TInt(1)])) >>)) >>)
MissingFieldDoc == Doc(<< Entry("main", TTab(<< GoodTable[1], GoodTable[2] >>)) >>)
ReorderedDoc    == Doc(<< Entry("other", TTab(<< GoodTable[3], GoodTable[1], GoodTable[2] >>)) >>)
RootNotTableDoc == Doc(<< Entry("main", TInt(3)) >>)

SavedDocs == {TomlWrite(r, v) : r \in RootNames, v \in TValues}
BadDocs == {Malformed, EmptyDoc, TwoRootsDoc, UnknownKeyDoc, InvalidTypeDoc,
            ArraySizeDoc, MissingFieldDoc, RootNotTableDoc}
\* hand-written files; the files a save writes come from save itself
Contents == BadDocs \cup {ReorderedDoc} \cup {TomlWrite(r, DefaultT) : r \in RootNames}

(***************************************************************************)
(* State                                                                   *)
(***************************************************************************)
VARIABLES
    m_content,                \* T m_content
    m_root_name,              \* std::string m_root_name
    m_state,                  \* ConfigState m_state
    m_root_name_load_policy,  \* RootNameLoadPolicy m_root_name_load_policy
    fs,                       \* the files: path -> content or Missing
    saved,                    \* per path: the root name and value a save last
                              \* wrote there, while the file is still that one
    load_failed,              \* a load of this Session has failed with
                              \* ConfigLoadError (file missing, root mismatch)
    last,                     \* the most recent call and how it ended
    schema,                   \* register_as_cli: the struct type T reflected
    rfl_array_view,           \* what rfl::to_view makes of a std::array
    raw_struct,               \* a struct of type T outside any Config<T>
    app_options,              \* CliApp: the add_option calls received, in order
    app_footer,               \* CliApp: the footer calls received
    app_calls,                \* the register_as_cli calls made with this app
    cli_call,                 \* the most recent call that involved the app
    g_buffer,                 \* glaze Config<T>: the bytes of the file at the path
    g_state,                  \* glaze Config<T>: ConfigState m_state
    g_call,                   \* glaze Config<T>: the most recent call
    g_content,                \* glaze Config<T>: m_content, the live value
    writers,                  \* Registry::get_writers(): the entries of the map
    registrar_done,           \* the T whose Config<T>::m_registrar is initialised
    main_started,             \* static initialisation is over
    sessions,                 \* per T: the Config<T> objects constructed
    r_call,                   \* Registry: the most recent call
    t_pc,                     \* per thread: where it is in register_schema
    t_args,                   \* per thread: the arguments of its register_schema
    t_calls,                  \* per thread: the register_schema calls it began
    yamlRoot,                 \* legacy Config: the loaded document
    configFilePath,           \* legacy Config: the file last asked for
    m_loaded,                 \* legacy Config: a loadConfig succeeded
    configMap,                \* legacy Config: the cache, key -> node
    unknownKeys,              \* legacy Config: the keys recorded as unknown
    found,                    \* the keys whose full path a get or has found
    converted,                \* the keys a get found and converted
    y_call                    \* legacy Config: the most recent call

cli_vars == <<schema, rfl_array_view, raw_struct, app_options, app_footer,
              app_calls, cli_call>>
glz_vars == <<g_buffer, g_state, g_call, g_content>>
reg_vars == <<writers, registrar_done, main_started, sessions, r_call,
              t_pc, t_args, t_calls>>
yaml_vars == <<yamlRoot, configFilePath, m_loaded, configMap, unknownKeys,
               found, converted, y_call>>
ext_vars == <<glz_vars, reg_vars, yaml_vars>>
vars == <<m_content, m_root_name, m_state, m_root_name_load_policy, fs, saved,
          load_failed, last, cli_vars, ext_vars>>
session == <<m_content, m_root_name, m_state, m_root_name_load_policy>>

\* why: the reason of a failure; for set_root_name its argument; for save
\* whether the std::ofstream was open; what: the arguments formatted into the
\* message of the exception thrown
Call(op, path, result, why, parser) ==
    [op |-> op, path |-> path, result |-> result, why |-> why, parser |-> parser,
     what |-> <<>>]

\* fn: "register_as_cli" with its T and prefix, or "parse" with the option
\* (its position in app_options) and the value the command line gives it
CliCall(fn, T, prefix, option, value) ==
    [fn |-> fn, T |-> T, prefix |-> prefix, option |-> option, value |-> value]
NoCliCall == CliCall("app", "", "", 0, 0)

NotSaved == [by_save |-> FALSE, root |-> "", value |-> DefaultT]
SavedAs(root, value) == [by_save |-> TRUE, root |-> root, value |-> value]

\* the process died (a read through end() of an empty map)
crashed == last.result = "crash"

\* the glaze Config<T>, untouched
\* ec, location: what the parser reported (glz::error_ctx); key: the text
\* extract_error_key returned
GlzCall(op, result, ec, location, key) ==
    [op |-> op, result |-> result, ec |-> ec, location |-> location, key |-> key]
NoGlzCall == GlzCall("construct", "ok", "none", 0, <<>>)
\* Content of the glaze variant: a struct of two numbers, as constructed
GlzFields == {"x", "y"}
GlzValues == {0, 1, 2}
GlzDefault == [x |-> 0, y |-> 0]
GlzIdle ==
    /\ g_buffer = <<>>
    /\ g_state = "DEFAULT"
    /\ g_call = NoGlzCall
    /\ g_content = GlzDefault

\* the schema types of a program, and the names registered: glz::name_v<T>
\* of each type, and one name no type has
Types == {"ExampleConfig", "AppConfig"}
name_v(T) == T
SchemaNames == {name_v(T) : T \in Types} \cup {"Custom"}

\* the threads that call register_schema
NumThreads == 2
Threads == 1..NumThreads

\* name: the key; writer: the type the lambda generates the schema of or
\* "none"; invoked: the entries whose writer the call invoked, in order
RegCall(op, name, result, writer) ==
    [op |-> op, name |-> name, result |-> result, writer |-> writer,
     invoked |-> << >>]
NoRegCall == RegCall("start", "", "ok", "none")

\* register_schema<T>(name)
Args(T, name) == [T |-> T, name |-> name]
NoArgs == Args("none", "")

\* the registry of a process that has not begun its static initialisation
RegIdle ==
    /\ writers = <<>>
    /\ registrar_done = {}
    /\ main_started = FALSE
    /\ sessions = [T \in Types |-> 0]
    /\ r_call = NoRegCall
    /\ t_pc = [t \in Threads |-> "idle"]
    /\ t_args = [t \in Threads |-> NoArgs]
    /\ t_calls = [t \in Threads |-> 0]

\* YAML nodes: a map, a scalar with its text, or no node
MapNode == [kind |-> "map", text |-> ""]
Scalar(text) == [kind |-> "scalar", text |-> text]
Undefined == [kind |-> "undefined", text |-> ""]

\* the keys a program asks for, as the subkeys between the colons
LegacyKeys == {<< "a" >>, << "a", "b" >>, << "level" >>}
NoKey == << >>

\* a document: the node at every path; YAML::Node() has none
NullDocument == [k \in LegacyKeys |-> Undefined]

\* the values get<T> returns
IntV(n) == [T |-> "int", n |-> n, s |-> ""]
StrV(str) == [T |-> "string", n |-> 0, s |-> str]
NoValue == [T |-> "none", n |-> 0, s |-> ""]

\* traversed: the call walked the document; cache_read: it read the cache
YCall(op, key, T, default, outcome, returned, traversed, cache_read) ==
    [op |-> op, key |-> key, T |-> T, default |-> default, outcome |-> outcome,
     returned |-> returned, traversed |-> traversed, cache_read |-> cache_read]
NoYCall == YCall("getInstance", NoKey, "none", NoValue, "ok", NoValue, FALSE, FALSE)

\* the singleton as Config::getInstance() constructs it
YamlIdle ==
    /\ yamlRoot = NullDocument
    /\ configFilePath = ""
    /\ m_loaded = FALSE
    /\ configMap = << >>
    /\ unknownKeys = << >>
    /\ found = {}
    /\ converted = {}
    /\ y_call = NoYCall

\* the parts of the library a specification does not exercise
ExtIdle ==
    /\ GlzIdle
    /\ RegIdle
    /\ YamlIdle

\* variant: the policy member initialised to FROM_FILE
Construct_policy ==
    [m_content |-> DefaultT,
     m_root_name |-> "main",
     m_state |-> "DEFAULT",
     m_root_name_load_policy |-> "FROM_FILE"]

\* Config() = default with the member initialisers of Config<T>
Construct ==
    [m_content |-> DefaultT,
     m_root_name |-> "main",
     m_state |-> "DEFAULT",
     m_root_name_load_policy |-> "KEEP_CURRENT"]

Init ==
    /\ m_content = Construct.m_content
    /\ m_root_name = Construct.m_root_name
    /\ m_state = Construct.m_state
    /\ m_root_name_load_policy = Construct.m_root_name_load_policy
    /\ fs = [p \in Paths |-> Missing]
    /\ saved = [p \in Paths |-> NotSaved]
    /\ load_failed = FALSE
    /\ last = Call("construct", NoPath, "ok", "", FALSE)
    /\ schema = <<>>
    /\ rfl_array_view = "none"
    /\ raw_struct = <<>>
    /\ app_options = <<>>
    /\ app_footer = 0
    /\ app_calls = 0
    /\ cli_call = NoCliCall
    /\ ExtIdle

\* a further Config<T> object is constructed and takes the place of the old one
NewSession ==
    /\ ~crashed
    /\ UNCHANGED <<cli_vars, ext_vars>>
    /\ load_failed' = FALSE
    /\ m_content' = Construct.m_content
    /\ m_root_name' = Construct.m_root_name
    /\ m_state' = Construct.m_state
    /\ m_root_name_load_policy' = Construct.m_root_name_load_policy
    /\ last' = Call("construct", NoPath, "ok", "", FALSE)
    /\ UNCHANGED <<fs, saved>>

(***************************************************************************)
(* Accessors                                                               *)
(***************************************************************************)
\* T* write() / T& operator*() : the caller stores a value of T
write(v) ==
    /\ ~crashed
    /\ UNCHANGED <<cli_vars, load_failed, ext_vars>>
    /\ m_content' = v
    /\ last' = Call("write", NoPath, "ok", "", FALSE)
    /\ UNCHANGED <<m_root_name, m_state, m_root_name_load_policy, fs, saved>>

\* variant: the root name is frozen once the Session is loaded
set_root_name_until_loaded(name) ==
    /\ ~crashed
    /\ UNCHANGED <<cli_vars, load_failed, ext_vars>>
    /\ m_root_name' = IF m_state = "LOADED_FROM_FILE" THEN m_root_name ELSE name
    /\ last' = Call("set_root_name", NoPath, "ok", name, FALSE)
    /\ UNCHANGED <<m_content, m_state, m_root_name_load_policy, fs, saved>>

set_root_name(name) ==
    /\ ~crashed
    /\ UNCHANGED <<cli_vars, load_failed, ext_vars>>
    /\ m_root_name' = name
    /\ last' = Call("set_root_name", NoPath, "ok", name, FALSE)
    /\ UNCHANGED <<m_content, m_state, m_root_name_load_policy, fs, saved>>

set_root_name_load_policy(policy) ==
    /\ ~crashed
    /\ UNCHANGED <<cli_vars, load_failed, ext_vars>>
    /\ m_root_name_load_policy' = policy
    /\ last' = Call("set_root_name_load_policy", NoPath, "ok", "", FALSE)
    /\ UNCHANGED <<m_content, m_root_name, m_state, fs, saved>>

(***************************************************************************)
(* save                                                                    *)
(***************************************************************************)
\* variant: the wrapper key is the literal "main", not m_root_name
save_fixed_root(path, canOpen) ==
    /\ ~crashed
    /\ UNCHANGED <<cli_vars, load_failed, ext_vars>>
    /\ IF ~canOpen
       THEN /\ last' = Call("save", path, "ConfigSaveError", "open_failed", FALSE)
            /\ UNCHANGED <<fs, saved>>
       ELSE /\ fs' = [fs EXCEPT ![path] = TomlWrite("main", m_content)]
            /\ saved' = [saved EXCEPT ![path] = SavedAs(m_root_name, m_content)]
            /\ last' = Call("save", path, "ok", "opened", FALSE)
    /\ UNCHANGED session

\* variant: a successful save marks the Session as backed by a file
save_marks_loaded(path, canOpen) ==
    /\ ~crashed
    /\ UNCHANGED <<cli_vars, load_failed, ext_vars>>
    /\ IF ~canOpen
       THEN /\ last' = Call("save", path, "ConfigSaveError", "open_failed", FALSE)
            /\ UNCHANGED <<fs, saved, m_state>>
       ELSE /\ fs' = [fs EXCEPT ![path] = TomlWrite(m_root_name, m_content)]
            /\ saved' = [saved EXCEPT ![path] = SavedAs(m_root_name, m_content)]
            /\ m_state' = "LOADED_FROM_FILE"
            /\ last' = Call("save", path, "ok", "opened", FALSE)
    /\ UNCHANGED <<m_content, m_root_name, m_root_name_load_policy>>

\* variant: is_open() is not tested, the write to a closed stream is lost
\* and save returns normally
save_swallows(path, canOpen) ==
    /\ ~crashed
    /\ UNCHANGED <<cli_vars, load_failed, ext_vars>>
    /\ IF ~canOpen
       THEN /\ last' = Call("save", path, "ok", "open_failed", FALSE)
            /\ UNCHANGED <<fs, saved>>
       ELSE /\ fs' = [fs EXCEPT ![path] = TomlWrite(m_root_name, m_content)]
            /\ saved' = [saved EXCEPT ![path] = SavedAs(m_root_name, m_content)]
            /\ last' = Call("save", path, "ok", "opened", FALSE)
    /\ UNCHANGED session

\* canOpen: whether std::ofstream could open the destination
save(path, canOpen) ==
    /\ ~crashed
    /\ UNCHANGED <<cli_vars, load_failed, ext_vars>>
    /\ IF ~canOpen
       THEN /\ last' = Call("save", path, "ConfigSaveError", "open_failed", FALSE)
            /\ UNCHANGED <<fs, saved>>
       ELSE /\ fs' = [fs EXCEPT ![path] = TomlWrite(m_root_name, m_content)]
            /\ saved' = [saved EXCEPT ![path] = SavedAs(m_root_name, m_content)]
            /\ last' = Call("save", path, "ok", "opened", FALSE)
    /\ UNCHANGED session

\* static save_schema(path): the JSON schema of the wrapper is written over
\* whatever the path held; what is written is no TOML document
save_schema_file(path, canOpen) ==
    /\ ~crashed
    /\ UNCHANGED <<cli_vars, load_failed, ext_vars>>
    /\ IF ~canOpen
       THEN /\ last' = Call("save_schema", path, "SchemaSaveError", "open_failed", FALSE)
            /\ UNCHANGED <<fs, saved>>
       ELSE /\ fs' = [fs EXCEPT ![path] = Malformed]
            /\ saved' = [saved EXCEPT ![path] = NotSaved]
            /\ last' = Call("save_schema", path, "ok", "opened", FALSE)
    /\ UNCHANGED session

(***************************************************************************)
(* load                                                                    *)
(***************************************************************************)
\* variant: no one-shot test
AlreadyLoaded_never == FALSE

\* if (m_state == ConfigState::LOADED_FROM_FILE)
AlreadyLoaded == m_state = "LOADED_FROM_FILE"

\* variant: no existence test
exists_always(path) == TRUE

\* std::filesystem::exists(path)
exists(path) == fs[path] # Missing

\* variant: a parser error reported as ConfigLoadError
ThrowParseError_as_load(path) ==
    /\ last' = [Call("load", path, "ConfigLoadError", "parse", TRUE)
                    EXCEPT !.what = << path >>]
    /\ UNCHANGED <<session, fs, saved>>

\* std::format("Failed to load config from file: {}", path): the arguments
ParseErrorWhat(path) == << path >>

\* if (!result) throw exceptions::ConfigParseError
ThrowParseError(path) ==
    /\ last' = [Call("load", path, "ConfigParseError", "parse", TRUE)
                    EXCEPT !.what = ParseErrorWhat(path)]
    /\ UNCHANGED <<session, fs, saved>>

\* result.value().begin()->first : the key of some entry of the unordered
\* map, whichever the hash order puts first; on an empty map begin() is end()
\* and the read is undefined: the process dies (see load) or the string read
\* is garbage
BeginKeys(map) ==
    IF map = <<>> THEN {Garbage} ELSE Keys(map)

\* variant: the mismatch test applied under the other policy
RootMismatch_inverted(loaded_root_name) ==
    /\ m_root_name_load_policy = "FROM_FILE"
    /\ m_root_name # loaded_root_name

\* m_root_name_load_policy == KEEP_CURRENT && m_root_name != loaded_root_name
RootMismatch(loaded_root_name) ==
    /\ m_root_name_load_policy = "KEEP_CURRENT"
    /\ m_root_name # loaded_root_name

\* variant: m_root_name assigned before the mismatch test
Adopt_name_first(path, map, loaded_root_name) ==
    /\ m_root_name' = loaded_root_name
    /\ IF RootMismatch(loaded_root_name)
       THEN /\ last' = Call("load", path, "ConfigLoadError", "root_mismatch", TRUE)
            /\ UNCHANGED <<m_content, m_state>>
       ELSE IF HasKey(map, loaded_root_name)
       THEN /\ m_content' = Lookup(map, loaded_root_name)
            /\ m_state' = "LOADED_FROM_FILE"
            /\ last' = Call("load", path, "ok", "", TRUE)
       ELSE /\ last' = Call("load", path, "out_of_range", "empty_map", TRUE)
            /\ UNCHANGED <<m_content, m_state>>
    /\ UNCHANGED <<m_root_name_load_policy, fs, saved>>

\* variant: m_root_name never assigned
Adopt_keeps_name(path, map, loaded_root_name) ==
    IF RootMismatch(loaded_root_name)
    THEN /\ last' = Call("load", path, "ConfigLoadError", "root_mismatch", TRUE)
         /\ UNCHANGED <<session, fs, saved>>
    ELSE /\ IF HasKey(map, loaded_root_name)
            THEN /\ m_content' = Lookup(map, loaded_root_name)
                 /\ m_state' = "LOADED_FROM_FILE"
                 /\ last' = Call("load", path, "ok", "", TRUE)
            ELSE /\ last' = Call("load", path, "out_of_range", "empty_map", TRUE)
                 /\ UNCHANGED <<m_content, m_state>>
         /\ UNCHANGED <<m_root_name, m_root_name_load_policy, fs, saved>>

\* variant: a rejected root name uses up the Session's one load
Adopt_mismatch_consumes(path, map, loaded_root_name) ==
    IF RootMismatch(loaded_root_name)
    THEN /\ last' = Call("load", path, "ConfigLoadError", "root_mismatch", TRUE)
         /\ m_state' = "LOADED_FROM_FILE"
         /\ UNCHANGED <<m_content, m_root_name, m_root_name_load_policy, fs, saved>>
    ELSE /\ m_root_name' = loaded_root_name
         /\ IF HasKey(map, loaded_root_name)
            THEN /\ m_content' = Lookup(map, loaded_root_name)
                 /\ m_state' = "LOADED_FROM_FILE"
                 /\ last' = Call("load", path, "ok", "", TRUE)
            ELSE /\ last' = Call("load", path, "out_of_range", "empty_map", TRUE)
                 /\ UNCHANGED <<m_content, m_state>>
         /\ UNCHANGED <<m_root_name_load_policy, fs, saved>>

\* the tail of load once loaded_root_name is known: the mismatch check, then
\* m_root_name, m_content (through unordered_map::at, which throws on a key
\* the map does not hold) and m_state are assigned in this order
Adopt(path, map, loaded_root_name) ==
    IF RootMismatch(loaded_root_name)
    THEN /\ last' = Call("load", path, "ConfigLoadError", "root_mismatch", TRUE)
         /\ UNCHANGED <<session, fs, saved>>
    ELSE /\ m_root_name' = loaded_root_name
         /\ IF HasKey(map, loaded_root_name)
            THEN /\ m_content' = Lookup(map, loaded_root_name)
                 /\ m_state' = "LOADED_FROM_FILE"
                 /\ last' = Call("load", path, "ok", "", TRUE)
            ELSE /\ last' = Call("load", path, "out_of_range", "empty_map", TRUE)
                 /\ UNCHANGED <<m_content, m_state>>
         /\ UNCHANGED <<m_root_name_load_policy, fs, saved>>

\* variant: the file is looked for before the state is tested
load_exists_first(path) ==
    /\ ~crashed
    /\ UNCHANGED <<cli_vars, ext_vars>>
    /\ IF ~exists(path)
       THEN /\ last' = Call("load", path, "ConfigLoadError", "file_missing", FALSE)
            /\ UNCHANGED <<session, fs, saved>>
       ELSE IF AlreadyLoaded
       THEN /\ last' = Call("load", path, "ConfigLoadError", "already_loaded", FALSE)
            /\ UNCHANGED <<session, fs, saved>>
       ELSE LET result == rfl_toml_load(fs[path]) IN
            IF ~result.ok
            THEN ThrowParseError(path)
            ELSE \/ \E loaded_root_name \in BeginKeys(result.value) :
                        Adopt(path, result.value, loaded_root_name)
                 \/ /\ result.value = <<>>
                    /\ last' = Call("load", path, "crash", "empty_map", TRUE)
                    /\ UNCHANGED <<session, fs, saved>>
    /\ load_failed' = (\/ load_failed
                       \/ /\ last'.result = "ConfigLoadError"
                          /\ last'.why \in {"file_missing", "root_mismatch"})

load(path) ==
    /\ ~crashed
    /\ UNCHANGED <<cli_vars, ext_vars>>
    /\ IF AlreadyLoaded
       THEN /\ last' = Call("load", path, "ConfigLoadError", "already_loaded", FALSE)
            /\ UNCHANGED <<session, fs, saved>>
       ELSE IF ~exists(path)
       THEN /\ last' = Call("load", path, "ConfigLoadError", "file_missing", FALSE)
            /\ UNCHANGED <<session, fs, saved>>
       ELSE LET result == rfl_toml_load(fs[path]) IN
            IF ~result.ok
            THEN ThrowParseError(path)
            ELSE \/ \E loaded_root_name \in BeginKeys(result.value) :
                        Adopt(path, result.value, loaded_root_name)
                 \/ /\ result.value = <<>>
                    /\ last' = Call("load", path, "crash", "empty_map", TRUE)
                    /\ UNCHANGED <<session, fs, saved>>
    /\ load_failed' = (\/ load_failed
                       \/ /\ last'.result = "ConfigLoadError"
                          /\ last'.why \in {"file_missing", "root_mismatch"})

(***************************************************************************)
(* The environment: files appear, change and disappear between calls       *)
(***************************************************************************)
EnvPutFile(path, content) ==
    /\ ~crashed
    /\ UNCHANGED <<cli_vars, load_failed, ext_vars>>
    /\ fs' = [fs EXCEPT ![path] = content]
    /\ saved' = [saved EXCEPT ![path] = NotSaved]
    /\ last' = Call("env", NoPath, "ok", "", FALSE)
    /\ UNCHANGED session

EnvRemoveFile(path) ==
    /\ ~crashed
    /\ UNCHANGED <<cli_vars, load_failed, ext_vars>>
    /\ fs[path] # Missing
    /\ fs' = [fs EXCEPT ![path] = Missing]
    /\ saved' = [saved EXCEPT ![path] = NotSaved]
    /\ last' = Call("env", NoPath, "ok", "", FALSE)
    /\ UNCHANGED session

Next ==
    \/ NewSession
    \/ \E v \in TValues : write(v)
    \/ \E name \in RootNames : set_root_name(name)
    \/ \E policy \in {"FROM_FILE", "KEEP_CURRENT"} : set_root_name_load_policy(policy)
    \/ \E path \in Paths, canOpen \in BOOLEAN : save(path, canOpen)
    \/ \E path \in Paths, canOpen \in BOOLEAN : save_schema_file(path, canOpen)
    \/ \E path \in Paths : load(path)
    \/ \E path \in Paths, content \in Contents : EnvPutFile(path, content)
    \/ \E path \in Paths : EnvRemoveFile(path)

Spec == Init /\ [][Next]_vars

TypeOK ==
    /\ m_content \in TValues
    /\ m_root_name \in RootNames \cup {Garbage}
    /\ m_state \in {"DEFAULT", "LOADED_FROM_FILE"}
    /\ m_root_name_load_policy \in {"FROM_FILE", "KEEP_CURRENT"}
    /\ last.op \in {"construct", "write", "set_root_name", "set_root_name_load_policy",
                    "save", "save_schema", "load", "env"}

(***************************************************************************)
(* Properties of Config<T>::load, save and construction.                   *)
(*                                                                         *)
(* Every call replaces `last`, so a step that is not a stuttering step and *)
(* ends with last'.op = "load" is a load call; the unprimed variables are  *)
(* the Session and the files the call found, the primed ones what it left. *)
(***************************************************************************)
LoadCall == last'.op = "load"
FileRead == fs[last'.path]

\* the file read by the call is well-formed TOML with exactly one root table
\* that fits T
SingleRoot(file) ==
    /\ rfl_toml_load(file).ok
    /\ Len(file.roots) = 1

\* some table of the file holds a key that is no field of T
HasUnknownKey(file) ==
    /\ file.kind = "toml"
    /\ \E i \in DOMAIN file.roots :
          /\ file.roots[i].val.kind = "table"
          /\ ~(Keys(file.roots[i].val.val) \subseteq {Schema[k].name : k \in DOMAIN Schema})

\* C1 (one-shot load): a load that returns normally leaves the Session in
\* LOADED_FROM_FILE, the Session stays there for as long as it lives, and in
\* that state every load call, whatever file its path names, fails with the
\* already-loaded ConfigLoadError and changes nothing of the Session.
C1_OneShotLoad ==
    [][ /\ (LoadCall /\ last'.result = "ok") => m_state' = "LOADED_FROM_FILE"
        /\ (m_state = "LOADED_FROM_FILE" /\ last'.op # "construct")
              => m_state' = "LOADED_FROM_FILE"
        /\ (LoadCall /\ m_state = "LOADED_FROM_FILE")
              => /\ last'.result = "ConfigLoadError"
                 /\ last'.why = "already_loaded"
                 /\ session' = session ]_vars

C1_Witness ==
    /\ last.op = "load"
    /\ last.why = "already_loaded"
    /\ fs[last.path] = Malformed
    /\ m_state = "LOADED_FROM_FILE"

\* C2 (load is atomic on failure): a load call that fails with ConfigLoadError
\* (already loaded, file missing, root-name mismatch) or ConfigParseError
\* leaves state, root name, policy and live value as they were.
C2_LoadAtomicOnFailure ==
    [][ (LoadCall /\ last'.result \in {"ConfigLoadError", "ConfigParseError"})
            => session' = session ]_vars

C2_Witness ==
    /\ last.op = "load"
    /\ last.result = "ConfigParseError"
    /\ m_content # DefaultT
    /\ m_root_name = "other"
    /\ m_root_name_load_policy = "FROM_FILE"

\* C3 (root mismatch rejection): under KEEP_CURRENT a load of a well-formed
\* file whose single root key is not the Session's root name fails with
\* ConfigLoadError; value, root name and state (DEFAULT) stay as they were.
C3_RootMismatchRejected ==
    [][ ( /\ LoadCall
          /\ m_state = "DEFAULT"
          /\ m_root_name_load_policy = "KEEP_CURRENT"
          /\ SingleRoot(FileRead)
          /\ FileRead.roots[1].key # m_root_name )
        => /\ last'.result = "ConfigLoadError"
           /\ last'.why = "root_mismatch"
           /\ session' = session
           /\ m_state' = "DEFAULT" ]_vars

C3_Witness ==
    /\ last.op = "load"
    /\ last.why = "root_mismatch"
    /\ m_root_name = "main"
    /\ m_content = DefaultT
    /\ fs[last.path] = TomlWrite("other", Variant(1))

\* C4 (root mismatch acceptance): under FROM_FILE a load of a well-formed file
\* whose single root key is not the Session's root name returns normally; the
\* root name is then the file's root key, the live value is the value parsed
\* from the file and the state is LOADED_FROM_FILE.
C4_RootMismatchAccepted ==
    [][ ( /\ LoadCall
          /\ m_state = "DEFAULT"
          /\ m_root_name_load_policy = "FROM_FILE"
          /\ SingleRoot(FileRead)
          /\ FileRead.roots[1].key # m_root_name )
        => /\ last'.result = "ok"
           /\ m_root_name' = FileRead.roots[1].key
           /\ m_content' = ReadT(FileRead.roots[1].val)
           /\ m_state' = "LOADED_FROM_FILE" ]_vars

C4_Witness ==
    /\ last.op = "load"
    /\ last.result = "ok"
    /\ m_root_name_load_policy = "FROM_FILE"
    /\ m_root_name = "other"
    /\ fs[last.path] = ReorderedDoc
    /\ m_content = DefaultT

\* C5 (round trip): a load, by a DEFAULT Session with policy KEEP_CURRENT, of
\* a file that a save wrote from root name r and value v, with the Session's
\* root name being r, returns normally with live value v and root name r.
C5_RoundTrip ==
    [][ ( /\ LoadCall
          /\ m_state = "DEFAULT"
          /\ m_root_name_load_policy = "KEEP_CURRENT"
          /\ saved[last'.path].by_save
          /\ saved[last'.path].root = m_root_name )
        => /\ last'.result = "ok"
           /\ m_content' = saved[last'.path].value
           /\ m_root_name' = m_root_name
           /\ m_state' = "LOADED_FROM_FILE" ]_vars

C5_Witness ==
    /\ last.op = "load"
    /\ last.result = "ok"
    /\ saved[last.path].by_save
    /\ m_root_name_load_policy = "KEEP_CURRENT"
    /\ m_root_name = "other"
    /\ m_content = Variant(2)

\* C6 (exactly one root): a load of a file whose parsed top-level mapping has
\* no entry or more than one fails with ConfigLoadError and adopts nothing,
\* and a load that returns normally has read a mapping of exactly one entry,
\* whose key is the root name.
C6_ExactlyOneRoot ==
    [][ ( /\ LoadCall
          /\ m_state = "DEFAULT"
          /\ exists(last'.path)
          /\ rfl_toml_load(FileRead).ok )
        => IF Len(FileRead.roots) = 1
           THEN last'.result = "ok" => m_root_name' = FileRead.roots[1].key
           ELSE /\ last'.result = "ConfigLoadError"
                /\ session' = session ]_vars

\* C7 (missing file): a load by a DEFAULT Session of a path that names no
\* existing file fails with ConfigLoadError and the parser is not invoked.
C7_MissingFile ==
    [][ (LoadCall /\ m_state = "DEFAULT" /\ fs[last'.path] = Missing)
        => /\ last'.result = "ConfigLoadError"
           /\ last'.why = "file_missing"
           /\ ~last'.parser ]_vars

C7_Witness ==
    /\ last.op = "load"
    /\ last.why = "file_missing"
    /\ m_state = "DEFAULT"
    /\ fs[last.path] = Missing

\* C8 (unknown field rejection): a load by a DEFAULT Session of an existing
\* file that holds a key that is no field of T fails with ConfigParseError.
C8_UnknownFieldRejected ==
    [][ (LoadCall /\ m_state = "DEFAULT" /\ HasUnknownKey(FileRead))
        => last'.result = "ConfigParseError" ]_vars

\* C9 (parser failures): whenever the parser reports a failure for the file
\* (syntax, a field of the wrong type, an array of the wrong length), load
\* fails with ConfigParseError.
C9_ParserFailureIsParseError ==
    [][ ( /\ LoadCall
          /\ m_state = "DEFAULT"
          /\ exists(last'.path)
          /\ ~rfl_toml_load(FileRead).ok )
        => last'.result = "ConfigParseError" ]_vars

C9_Witness ==
    /\ last.op = "load"
    /\ last.result = "ConfigParseError"
    /\ fs[last.path] = ArraySizeDoc

\* C10 (construction): a newly constructed Session holds T's default value,
\* state DEFAULT, root name "main" and policy KEEP_CURRENT, and constructing
\* it touches no file.
C10_Construction ==
    /\ [](last.op = "construct"
            => /\ m_content = DefaultT
               /\ m_state = "DEFAULT"
               /\ m_root_name = "main"
               /\ m_root_name_load_policy = "KEEP_CURRENT"
               /\ ~last.parser)
    /\ [][last'.op = "construct" => fs' = fs]_vars

C10_Witness ==
    /\ last.op = "construct"
    /\ \E p \in Paths : fs[p] \in SavedDocs /\ saved[p].value # DefaultT

(***************************************************************************)
(* Properties of save, set_root_name and of a load retried after a failure *)
(***************************************************************************)
SaveCall == last'.op = "save"
FileWritten == fs'[last'.path]

\* C11 (save leaves the Session unchanged): after any save call, successful
\* or failing, state, root name, policy and live value are what they were; a
\* save never moves a DEFAULT Session to LOADED_FROM_FILE, and a load of a
\* DEFAULT Session is never refused as already loaded, whatever was saved.
C11_SaveFrame ==
    [][ /\ SaveCall => session' = session
        /\ (LoadCall /\ m_state = "DEFAULT") => last'.why # "already_loaded" ]_vars

\* a Session that saved a modified value under a new root name loads, for
\* the first time, the file it wrote
C11_Witness ==
    /\ last.op = "load"
    /\ last.result = "ok"
    /\ saved[last.path].by_save
    /\ saved[last.path].root = "other"
    /\ saved[last.path].value # DefaultT
    /\ m_content = saved[last.path].value

\* C12 (the document written): a save that returns normally leaves at its
\* path a mapping with exactly one top-level entry, whose key is the root
\* name and whose value is the serialization of the live value, both as they
\* were when save was called.
C12_SingleEntryDocument ==
    [][ (SaveCall /\ last'.result = "ok")
            => /\ FileWritten.kind = "toml"
               /\ Len(FileWritten.roots) = 1
               /\ FileWritten.roots[1].key = m_root_name
               /\ FileWritten.roots[1].val = WriteT(m_content) ]_vars

C12_Witness ==
    /\ last.op = "save"
    /\ last.result = "ok"
    /\ m_root_name = "other"
    /\ m_content # DefaultT
    /\ fs[last.path] = Doc(<< Entry("other", WriteT(m_content)) >>)

\* C13 (set_root_name): set_root_name(n) is accepted in every lifecycle
\* state; it makes n the root name and changes neither state, policy, live
\* value nor any file; the root name then stays n until the next
\* set_root_name, load or construction, and every save in between writes
\* its single entry under it.
C13_SetRootName ==
    [][ /\ last'.op = "set_root_name"
              => /\ last'.result = "ok"
                 /\ m_root_name' = last'.why
                 /\ UNCHANGED <<m_content, m_state, m_root_name_load_policy, fs>>
        /\ last'.op \notin {"set_root_name", "load", "construct"}
              => m_root_name' = m_root_name
        /\ (SaveCall /\ last'.result = "ok")
              => Keys(FileWritten.roots) = {m_root_name} ]_vars

\* the root name of a loaded Session was changed away from the file's
C13_Witness ==
    /\ last.op = "set_root_name"
    /\ last.why = "other"
    /\ m_root_name = "other"
    /\ m_state = "LOADED_FROM_FILE"
    /\ \E p \in Paths : /\ SingleRoot(fs[p])
                         /\ Keys(fs[p].roots) = {"main"}

\* C14 (save failure): save ends with ConfigSaveError exactly when the
\* destination could not be opened for writing; then no file is written or
\* changed, and the call does not return normally.
C14_SaveError ==
    [][ SaveCall
            => /\ (last'.result = "ConfigSaveError") <=> (last'.why = "open_failed")
               /\ (last'.result = "ok") <=> (last'.why = "opened")
               /\ last'.why = "open_failed" => (fs' = fs /\ saved' = saved) ]_vars

\* a failing save over a file an earlier save wrote with another value
C14_Witness ==
    /\ last.op = "save"
    /\ last.result = "ConfigSaveError"
    /\ saved[last.path].by_save
    /\ saved[last.path].value # m_content

\* C15 (retry after a failed load): a load that fails with ConfigLoadError
\* because the file is missing or its root name is rejected under
\* KEEP_CURRENT leaves the Session in DEFAULT; a later load of the Session
\* that names an existing well-formed single-root file succeeds when the
\* policy is FROM_FILE by then or the file's root is the Session's.
C15_RetryAfterFailedLoad ==
    [][ /\ (/\ LoadCall
            /\ last'.result = "ConfigLoadError"
            /\ last'.why \in {"file_missing", "root_mismatch"})
              => (m_state = "DEFAULT" /\ m_state' = "DEFAULT")
        /\ (/\ LoadCall
            /\ load_failed
            /\ m_state = "DEFAULT"
            /\ SingleRoot(FileRead)
            /\ \/ m_root_name_load_policy = "FROM_FILE"
               \/ Keys(FileRead.roots) = {m_root_name})
              => /\ last'.result = "ok"
                 /\ m_state' = "LOADED_FROM_FILE" ]_vars

\* a Session whose earlier load failed has loaded a file under FROM_FILE
\* and carries a root name other than the one it was constructed with
C15_Witness ==
    /\ load_failed
    /\ last.op = "load"
    /\ last.result = "ok"
    /\ m_root_name_load_policy = "FROM_FILE"
    /\ m_root_name = "other"
    /\ m_content = DefaultT

(***************************************************************************)
(* register_as_cli: the fields of a schema as command-line options         *)
(***************************************************************************)
\* the register_as_cli calls one CLI application receives
MaxCalls == 2

\* the types of the fields of a schema; a field holds a name and a type
IntT == [kind |-> "int", fields |-> <<>>, len |-> 0]
BoolT == [kind |-> "bool", fields |-> <<>>, len |-> 0]
StringT == [kind |-> "string", fields |-> <<>>, len |-> 0]
ArrayT(n) == [kind |-> "array", fields |-> <<>>, len |-> n]
RecordT(fields) == [kind |-> "record", fields |-> fields, len |-> 0]
Field(name, type) == [name |-> name, type |-> type]

\* the smallest nested schema: an int a, and a nested struct b that holds a
\* string c
AbcSchema ==
    RecordT(<< Field("a", IntT),
               Field("b", RecordT(<< Field("c", StringT) >>)) >>)

\* struct Server { int port; std::string host; };
\* struct AppConfig { Server server; bool dry_run; };
AppConfig ==
    RecordT(<< Field("server", RecordT(<< Field("port", IntT),
                                          Field("host", StringT) >>)),
               Field("dry_run", BoolT) >>)

\* TestConfigSchema cut down to its field physics, and PhysicsConfigOptions
\* to one bool and its std::array<int, 3>
PhysicsSchema ==
    RecordT(<< Field("physics", RecordT(<< Field("diffusion", BoolT),
                                           Field("flags", ArrayT(ArrayLen)) >>)) >>)

CliSchemas == {AbcSchema, AppConfig, PhysicsSchema}
Prefixes == {"", "cfg"}

\* reflect-cpp is no part of this repository and rfl::to_view is written for
\* structs; handed a std::array it shows either the elements, as fields named
\* by their index, or nothing that register_as_cli could register
ArrayViews == {"elements", "none"}

\* std::is_class_v, std::is_aggregate_v: a struct without constructors and
\* std::array are aggregate classes, std::string is a class with constructors
is_class(type) == type.kind \in {"record", "array", "string"}
is_aggregate(type) == type.kind \in {"record", "array"}

IsConfigSchema(type) ==
    /\ is_class(type)
    /\ is_aggregate(type)
    /\ type.kind # "string"

\* variant: every T is taken for a Config wrapper
is_config_wrapper_any(T) == TRUE

\* is_config_wrapper<T>: true for Config<T> only
is_config_wrapper(T) == T = "Config"

\* rfl::to_view(config): the fields of the struct in declared order
to_view(type) ==
    IF type.kind = "record" THEN type.fields
    ELSE IF type.kind = "array" /\ rfl_array_view = "elements"
    THEN [i \in 1..type.len |-> Field(ToString(i - 1), IntT)]
    ELSE <<>>

\* prefix.empty() ? name : prefix + "." + name
field_name(prefix, name) ==
    IF prefix = "" THEN name ELSE prefix \o "." \o name

\* variant: the option is handed a copy of the field
OptionRef_copy(target, path) == [target |-> "copy", path |-> path]

\* *value: the reference add_option keeps; target is the object the field
\* lives in ("config": the Session's m_content, "raw": the raw struct), path
\* the positions of the fields that lead to it
OptionRef(target, path) == [target |-> target, path |-> path]

\* app.add_option(name, variable, description) as the app records it
add_option(name, ref, description) ==
    [name |-> name, ref |-> ref, description |-> description]

RECURSIVE Flatten(_, _, _, _, _)

\* variant: the fields of a struct visited last to first
Flatten_reversed(type, target, prefix, path, i) ==
    IF i > Len(to_view(type)) THEN <<>>
    ELSE LET f == to_view(type)[i]
             name == field_name(prefix, f.name)
             here == IF IsConfigSchema(f.type)
                     THEN Flatten(f.type, target, name, Append(path, i), 1)
                     ELSE << add_option("--" \o name,
                                        OptionRef(target, Append(path, i)),
                                        "Configuration option for " \o name) >>
         IN Flatten(type, target, prefix, path, i + 1) \o here

\* the else branch of register_as_cli: view.apply over the fields from the
\* i-th on of a struct of this type, found at `path` inside `target`; the
\* result is the sequence of add_option calls made
Flatten(type, target, prefix, path, i) ==
    IF i > Len(to_view(type)) THEN <<>>
    ELSE LET f == to_view(type)[i]
             name == field_name(prefix, f.name)
             here == IF IsConfigSchema(f.type)
                     THEN Flatten(f.type, target, name, Append(path, i), 1)
                     ELSE << add_option("--" \o name,
                                        OptionRef(target, Append(path, i)),
                                        "Configuration option for " \o name) >>
         IN here \o Flatten(type, target, prefix, path, i + 1)

\* the value of a default-constructed T
RECURSIVE DefaultOf(_)
DefaultOf(type) ==
    CASE type.kind = "int" -> 0
      [] type.kind = "bool" -> FALSE
      [] type.kind = "string" -> "default"
      [] type.kind = "array" -> [i \in 1..type.len |-> 0]
      [] type.kind = "record" -> [i \in DOMAIN type.fields |-> DefaultOf(type.fields[i].type)]

\* the values a command line can give an option of this type
CliValues(type) ==
    CASE type.kind = "int" -> {0, 8080}
      [] type.kind = "bool" -> BOOLEAN
      [] type.kind = "string" -> {"default", "localhost"}
      [] OTHER -> {}

\* the storage a path leads to inside a value, read and written
RECURSIVE Get(_, _)
Get(value, path) ==
    IF path = <<>> THEN value ELSE Get(value[Head(path)], Tail(path))

RECURSIVE Set(_, _, _)
Set(value, path, v) ==
    IF path = <<>> THEN v
    ELSE [value EXCEPT ![Head(path)] = Set(value[Head(path)], Tail(path), v)]

RECURSIVE TypeAt(_, _)
TypeAt(type, path) ==
    IF path = <<>> THEN type
    ELSE TypeAt(to_view(type)[Head(path)].type, Tail(path))

\* Config<T> config; T raw; both default-constructed
CliInit ==
    /\ schema \in CliSchemas
    /\ rfl_array_view \in ArrayViews
    /\ m_content = DefaultOf(schema)
    /\ raw_struct = DefaultOf(schema)
    /\ m_root_name = Construct.m_root_name
    /\ m_state = Construct.m_state
    /\ m_root_name_load_policy = Construct.m_root_name_load_policy
    /\ fs = [p \in Paths |-> Missing]
    /\ saved = [p \in Paths |-> NotSaved]
    /\ load_failed = FALSE
    /\ last = Call("construct", NoPath, "ok", "", FALSE)
    /\ app_options = <<>>
    /\ app_footer = 0
    /\ app_calls = 0
    /\ cli_call = NoCliCall
    /\ ExtIdle

\* CLI::App app(...): a new application takes the place of the old one
CliNewApp ==
    /\ UNCHANGED ext_vars
    /\ app_options' = <<>>
    /\ app_footer' = 0
    /\ app_calls' = 0
    /\ cli_call' = NoCliCall
    /\ UNCHANGED <<session, fs, saved, load_failed, last, schema, rfl_array_view,
                   raw_struct>>

\* register_as_cli(config, app, prefix) with config a Config<T> (T = "Config")
\* or a plain struct (T = "struct")
register_as_cli(T, prefix) ==
    /\ UNCHANGED ext_vars
    /\ app_calls < MaxCalls
    /\ app_calls' = app_calls + 1
    /\ IF is_config_wrapper(T)
       THEN /\ app_footer' = app_footer + 1
            /\ app_options' = app_options \o Flatten(schema, "config", prefix, <<>>, 1)
       ELSE /\ app_footer' = app_footer
            /\ app_options' = app_options \o Flatten(schema, "raw", prefix, <<>>, 1)
    /\ cli_call' = CliCall("register_as_cli", T, prefix, 0, 0)
    /\ UNCHANGED <<session, fs, saved, load_failed, last, schema, rfl_array_view,
                   raw_struct>>

\* app.parse(argc, argv): the command line gives the i-th option the value v,
\* which the app stores through the reference the option was added with
CliParse(i, v) ==
    /\ UNCHANGED ext_vars
    /\ i \in DOMAIN app_options
    /\ LET ref == app_options[i].ref IN
       IF ref.target = "config"
       THEN /\ m_content' = Set(m_content, ref.path, v)
            /\ UNCHANGED raw_struct
       ELSE IF ref.target = "raw"
       THEN /\ raw_struct' = Set(raw_struct, ref.path, v)
            /\ UNCHANGED m_content
       ELSE UNCHANGED <<m_content, raw_struct>>
    /\ cli_call' = CliCall("parse", "", "", i, v)
    /\ UNCHANGED <<m_root_name, m_state, m_root_name_load_policy, fs, saved,
                   load_failed, last, schema, rfl_array_view, app_options,
                   app_footer, app_calls>>

CliNext ==
    \/ CliNewApp
    \/ \E T \in {"Config", "struct"}, prefix \in Prefixes : register_as_cli(T, prefix)
    \/ \E i \in DOMAIN app_options :
          \E v \in CliValues(TypeAt(schema, app_options[i].ref.path)) : CliParse(i, v)

SpecCli == CliInit /\ [][CliNext]_vars

(***************************************************************************)
(* Properties of register_as_cli.                                          *)
(*                                                                         *)
(* Every call replaces cli_call; in a step that ends with a                *)
(* register_as_cli call, Added is the sequence of options the call added.  *)
(***************************************************************************)
RegisterCall == cli_call'.fn = "register_as_cli"
ParseCall == cli_call'.fn = "parse"
Added == SubSeq(app_options', Len(app_options) + 1, Len(app_options'))
Names(options) == {options[k].name : k \in DOMAIN options}

\* the fields of a schema that are no nested record (scalars, strings and
\* arrays), each as the positions of the fields that lead to it
RECURSIVE LeafFields(_, _)
LeafFields(type, path) ==
    UNION { IF type.fields[i].type.kind = "record"
            THEN LeafFields(type.fields[i].type, Append(path, i))
            ELSE {Append(path, i)} : i \in DOMAIN type.fields }

\* the dot-joined names of the fields along a path, after the prefix
RECURSIVE DottedName(_, _, _)
DottedName(type, path, prefix) ==
    LET f == to_view(type)[Head(path)]
        name == IF prefix = "" THEN f.name ELSE prefix \o "." \o f.name
    IN IF Len(path) = 1 THEN name ELSE DottedName(f.type, Tail(path), name)

\* every place of a value of the schema that holds a scalar or a string
RECURSIVE Storage(_, _)
Storage(type, path) ==
    CASE type.kind = "record" ->
            UNION {Storage(type.fields[i].type, Append(path, i)) : i \in DOMAIN type.fields}
      [] type.kind = "array" -> {Append(path, i) : i \in 1..type.len}
      [] OTHER -> {path}

\* p comes before q in declared order, depth first
PathBefore(p, q) ==
    \E n \in 1..Len(p) :
        /\ n <= Len(q)
        /\ p[n] < q[n]
        /\ \A m \in 1..(n - 1) : p[m] = q[m]

\* C16 (CLI flattening): registering the schema {a: int, b: {c: string}} with
\* an empty prefix adds exactly the names --a and --b.c; for every schema and
\* prefix the names a call adds are exactly "--" followed by the dotted path,
\* after the prefix if there is one, of every field that is no nested record.
C16_FlattenedNames ==
    [][ RegisterCall
            => /\ (schema = AbcSchema /\ cli_call'.prefix = "")
                      => Names(Added) = {"--a", "--b.c"}
               /\ Names(Added) = {"--" \o DottedName(schema, p, cli_call'.prefix) :
                                      p \in LeafFields(schema, <<>>)} ]_vars

\* C17 (registration order): the options one call adds come in the declared
\* order of the fields, depth first: the leaves of a nested record stand
\* where the record's field stands, before its next sibling; and no two
\* of them have the same name.
C17_RegistrationOrder ==
    [][ RegisterCall
            => \A j, k \in DOMAIN Added :
                  j < k => /\ PathBefore(Added[j].ref.path, Added[k].ref.path)
                           /\ Added[j].name # Added[k].name ]_vars

\* the nested record's leaves came first, then its sibling
C17_Witness ==
    /\ cli_call.fn = "register_as_cli"
    /\ cli_call.prefix = "cfg"
    /\ schema = AppConfig
    /\ app_calls = 1
    /\ [k \in DOMAIN app_options |-> app_options[k].name]
          = << "--cfg.server.port", "--cfg.server.host", "--cfg.dry_run" >>

\* C18 (one option per leaf): a call adds, for every field that is a scalar,
\* a string or a fixed-size array, at any depth, exactly one option, bound to
\* that field and named by its dotted path; an array field is one such leaf
\* and no option is bound to anything inside it.
C18_OneOptionPerLeaf ==
    [][ RegisterCall
            => /\ \A p \in LeafFields(schema, <<>>) :
                     \E k \in DOMAIN Added :
                        /\ Added[k].ref.path = p
                        /\ Added[k].name = "--" \o DottedName(schema, p, cli_call'.prefix)
                        /\ \A j \in DOMAIN Added : Added[j].ref.path = p => j = k
               /\ \A k \in DOMAIN Added :
                     Added[k].ref.path \in LeafFields(schema, <<>>) ]_vars

\* C19 (options are bound by reference): every option that a call with a
\* Config<T> adds is bound to the storage, inside the Session's live value,
\* of the field it is named after; a value the command line gives such an
\* option is the value then read at that field of the live value, and the
\* write changes no other field, nor state, root name or policy.
C19_BoundByReference ==
    [][ /\ (RegisterCall /\ cli_call'.T = "Config")
              => \A k \in DOMAIN Added :
                    /\ Added[k].ref.target = "config"
                    /\ Added[k].ref.path \in Storage(schema, <<>>)
                    /\ Added[k].name = "--" \o DottedName(schema, Added[k].ref.path,
                                                          cli_call'.prefix)
        /\ (ParseCall /\ app_options[cli_call'.option].ref.target # "raw")
              => LET path == app_options[cli_call'.option].ref.path IN
                 /\ Get(m_content', path) = cli_call'.value
                 /\ \A q \in Storage(schema, <<>>) \ {path} :
                       Get(m_content', q) = Get(m_content, q)
                 /\ UNCHANGED <<m_state, m_root_name, m_root_name_load_policy>> ]_vars

\* the command line set the nested field server.host of the live value and
\* nothing else; the raw struct, registered with the same app, kept its own
C19_Witness ==
    /\ cli_call.fn = "parse"
    /\ schema = AppConfig
    /\ app_options[cli_call.option].name = "--server.host"
    /\ app_options[cli_call.option].ref.target = "config"
    /\ m_content = << << 0, "localhost" >>, FALSE >>
    /\ raw_struct = DefaultOf(schema)
    /\ \E k \in DOMAIN app_options : app_options[k].ref.target = "raw"

\* C20 (the footer note): every register_as_cli call with a Config<T> calls
\* footer on the app exactly once, however many nested records the schema
\* has; a call with a plain struct does not call it, and nothing else does.
C20_FooterOncePerWrapper ==
    [][ /\ (RegisterCall /\ cli_call'.T = "Config") => app_footer' = app_footer + 1
        /\ (RegisterCall /\ cli_call'.T = "struct") => app_footer' = app_footer
        /\ ParseCall => app_footer' = app_footer ]_vars

\* one app took a call with a Config<T> and then one with a plain struct
C20_Witness ==
    /\ cli_call.fn = "register_as_cli"
    /\ cli_call.T = "struct"
    /\ app_calls = 2
    /\ app_footer = 1
    /\ \E k \in DOMAIN app_options : app_options[k].ref.target = "config"
    /\ \E k \in DOMAIN app_options : app_options[k].ref.target = "raw"

(***************************************************************************)
(* utils::extract_error_key and the load of the glaze Config<T>            *)
(*                                                                         *)
(* A std::string is a sequence of characters; the C++ index i is the       *)
(* position i + 1 here.                                                    *)
(***************************************************************************)
\* the longest buffer
MaxBuf == 4

Chars == {"k", " ", "=", ":", "\n", "\r"}
Strings(n) == UNION {[1..m -> Chars] : m \in 0..n}
Buffers == Strings(MaxBuf)

Unknown == << "u", "n", "k", "n", "o", "w", "n" >>
npos == -1

\* std::isspace in the "C" locale
isspace(c) == c \in {" ", "\t", "\n", "\r", "\f"}

\* while (line_start > 0 && buffer[line_start - 1] != '\n') line_start--
RECURSIVE LineStart(_, _)
LineStart(buffer, line_start) ==
    IF line_start > 0 /\ buffer[line_start] # "\n"
    THEN LineStart(buffer, line_start - 1)
    ELSE line_start

\* variant: the scan forward stops at '\r' only
RECURSIVE LineEnd_cr_only(_, _)
LineEnd_cr_only(buffer, line_end) ==
    IF line_end < Len(buffer) /\ buffer[line_end + 1] # "\r"
    THEN LineEnd_cr_only(buffer, line_end + 1)
    ELSE line_end

\* while (line_end < buffer.size() && buffer[line_end] != '\n'
\*        && buffer[line_end] != '\r') line_end++
RECURSIVE LineEnd(_, _)
LineEnd(buffer, line_end) ==
    IF /\ line_end < Len(buffer)
       /\ buffer[line_end + 1] # "\n"
       /\ buffer[line_end + 1] # "\r"
    THEN LineEnd(buffer, line_end + 1)
    ELSE line_end

\* std::string::substr(pos, n)
substr(str, pos, n) == SubSeq(str, pos + 1, pos + n)

\* std::string::find_first_of(chars)
find_first_of(str, chars) ==
    IF \E i \in DOMAIN str : str[i] \in chars
    THEN (CHOOSE i \in DOMAIN str :
              /\ str[i] \in chars
              /\ \A j \in 1..(i - 1) : str[j] \notin chars) - 1
    ELSE npos

\* variant: trailing whitespace is kept
PopBackSpaces_none(key_part) == key_part

\* while (!key_part.empty() && std::isspace(key_part.back())) key_part.pop_back()
RECURSIVE PopBackSpaces(_)
PopBackSpaces(key_part) ==
    IF key_part # <<>> /\ isspace(key_part[Len(key_part)])
    THEN PopBackSpaces(SubSeq(key_part, 1, Len(key_part) - 1))
    ELSE key_part

\* while (first_char < key_part.size() && std::isspace(key_part[first_char]))
\*     first_char++
RECURSIVE FirstChar(_, _)
FirstChar(key_part, first_char) ==
    IF first_char < Len(key_part) /\ isspace(key_part[first_char + 1])
    THEN FirstChar(key_part, first_char + 1)
    ELSE first_char

\* variant: an offset past the end is taken for the last byte's
extract_error_key_clamped(buffer, location) ==
    LET at == IF location >= Len(buffer) THEN Len(buffer) ELSE location
        line_start == LineStart(buffer, at)
        line_end == LineEnd(buffer, at)
        line == substr(buffer, line_start, line_end - line_start)
        separator_pos == find_first_of(line, {"=", ":"})
        key_part == PopBackSpaces(substr(line, 0, separator_pos))
        first_char == FirstChar(key_part, 0)
    IN IF separator_pos # npos /\ first_char < Len(key_part)
       THEN substr(key_part, first_char, Len(key_part) - first_char)
       ELSE line

extract_error_key(buffer, location) ==
    IF location >= Len(buffer) THEN Unknown
    ELSE LET line_start == LineStart(buffer, location)
             line_end == LineEnd(buffer, location)
             line == substr(buffer, line_start, line_end - line_start)
             separator_pos == find_first_of(line, {"=", ":"})
             key_part == PopBackSpaces(substr(line, 0, separator_pos))
             first_char == FirstChar(key_part, 0)
         IN IF separator_pos # npos /\ first_char < Len(key_part)
            THEN substr(key_part, first_char, Len(key_part) - first_char)
            ELSE line

\* the indexes at which the two scans read the buffer: the scan backward
\* reads buffer[line_start - 1] while line_start > 0, the scan forward
\* reads buffer[line_end] while line_end < buffer.size()
RECURSIVE LineStartReads(_, _)
LineStartReads(buffer, line_start) ==
    IF line_start > 0
    THEN {line_start - 1} \cup
         (IF buffer[line_start] # "\n"
          THEN LineStartReads(buffer, line_start - 1) ELSE {})
    ELSE {}
RECURSIVE LineEndReads(_, _)
LineEndReads(buffer, line_end) ==
    IF line_end < Len(buffer)
    THEN {line_end} \cup
         (IF buffer[line_end + 1] # "\n" /\ buffer[line_end + 1] # "\r"
          THEN LineEndReads(buffer, line_end + 1) ELSE {})
    ELSE {}
BufferReads(buffer, location) ==
    IF location >= Len(buffer) THEN {}
    ELSE LineStartReads(buffer, location) \cup LineEndReads(buffer, location)

\* what the parser can report about a buffer: no error, or an error at some
\* byte offset, which may lie one past the end (input ended too early)
Locations(buffer) == 0..(Len(buffer) + 1)

\* the other parts of the library, untouched by the glaze Config<T>
strict_vars == <<session, fs, saved, load_failed, last>>

GlzInit ==
    /\ m_content = Construct.m_content
    /\ m_root_name = Construct.m_root_name
    /\ m_state = Construct.m_state
    /\ m_root_name_load_policy = Construct.m_root_name_load_policy
    /\ fs = [p \in Paths |-> Missing]
    /\ saved = [p \in Paths |-> NotSaved]
    /\ load_failed = FALSE
    /\ last = Call("construct", NoPath, "ok", "", FALSE)
    /\ schema = <<>>
    /\ rfl_array_view = "none"
    /\ raw_struct = <<>>
    /\ app_options = <<>>
    /\ app_footer = 0
    /\ app_calls = 0
    /\ cli_call = NoCliCall
    /\ g_buffer \in Buffers
    /\ g_state = "DEFAULT"
    /\ g_call = NoGlzCall
    /\ g_content = GlzDefault
    /\ RegIdle
    /\ YamlIdle

\* a direct call of utils::extract_error_key(buffer, pe) with pe.location
ExtractErrorKey(location) ==
    /\ g_call' = GlzCall("extract_error_key", "ok", "parse_error", location,
                         extract_error_key(g_buffer, location))
    /\ UNCHANGED <<g_buffer, g_state, g_content, strict_vars, cli_vars, reg_vars,
                   yaml_vars>>

\* the lines of a TOML file as glz::read meets them: the key, whether the
\* value is a number, and the number
MaxLines == 2
TomlLine(key, good, value) == [key |-> key, good |-> good, value |-> value]
TomlLines == {TomlLine(k, g, v) : k \in GlzFields \cup {"zz"}, g \in BOOLEAN, v \in GlzValues}
Files(n) == UNION {[1..m -> TomlLines] : m \in 0..n}
\* the files whose first line already fails, and the empty file
FailingAtOnce == {<< >>, << TomlLine("x", FALSE, 0) >>}

\* glz::read<opts{TOML, error_on_unknown_keys = true}>(m_content, buffer):
\* the lines are read into the value handed in, one after the other, until
\* a key the struct does not have or a value that is no number
RECURSIVE glz_read(_, _, _)
glz_read(content, lines, i) ==
    IF i > Len(lines) THEN [ec |-> "none", content |-> content]
    ELSE IF lines[i].key \notin GlzFields THEN [ec |-> "unknown_key", content |-> content]
    ELSE IF ~lines[i].good THEN [ec |-> "parse_error", content |-> content]
    ELSE glz_read([content EXCEPT ![lines[i].key] = lines[i].value], lines, i + 1)

\* Config<T>::load of the glaze variant; readable: glz::file_to_buffer
\* succeeded; lines: what the file holds; location: where glz::read
\* reported its error
glz_load(readable, lines, location) ==
    /\ IF ~readable
       THEN /\ g_call' = GlzCall("load", "ConfigLoadError", "none", 0, <<>>)
            /\ UNCHANGED <<g_state, g_content>>
       ELSE LET err == glz_read(g_content, lines, 1)
            IN  /\ g_content' = err.content
                /\ IF err.ec # "none"
                   THEN /\ g_call' = GlzCall("load", "ConfigParseError", err.ec, location,
                                             extract_error_key(g_buffer, location))
                        /\ UNCHANGED g_state
                   ELSE /\ g_call' = GlzCall("load", "ok", "none", 0, <<>>)
                        /\ g_state' = "LOADED_FROM_FILE"
    /\ UNCHANGED <<g_buffer, strict_vars, cli_vars, reg_vars, yaml_vars>>

GlzNext ==
    \/ \E location \in Locations(g_buffer) : ExtractErrorKey(location)
    \/ \E readable \in BOOLEAN, lines \in FailingAtOnce,
          location \in Locations(g_buffer) : glz_load(readable, lines, location)

SpecGlz == GlzInit /\ [][GlzNext]_vars

\* the glaze Config<T> loading whole files
LoadBuffers == {<< "k", "=" >>, << "k", "\n", "=" >>}
GlzLoadInit ==
    /\ m_content = Construct.m_content
    /\ m_root_name = Construct.m_root_name
    /\ m_state = Construct.m_state
    /\ m_root_name_load_policy = Construct.m_root_name_load_policy
    /\ fs = [p \in Paths |-> Missing]
    /\ saved = [p \in Paths |-> NotSaved]
    /\ load_failed = FALSE
    /\ last = Call("construct", NoPath, "ok", "", FALSE)
    /\ schema = <<>>
    /\ rfl_array_view = "none"
    /\ raw_struct = <<>>
    /\ app_options = <<>>
    /\ app_footer = 0
    /\ app_calls = 0
    /\ cli_call = NoCliCall
    /\ g_buffer \in LoadBuffers
    /\ g_state = "DEFAULT"
    /\ g_call = NoGlzCall
    /\ g_content = GlzDefault
    /\ RegIdle
    /\ YamlIdle

GlzLoadNext ==
    \E readable \in BOOLEAN, lines \in Files(MaxLines), location \in Locations(g_buffer) :
        glz_load(readable, lines, location)

SpecGlzLoad == GlzLoadInit /\ [][GlzLoadNext]_vars

(***************************************************************************)
(* Registry: the schema writers, filled by Config<T>::Registrar            *)
(***************************************************************************)
\* the Config<T> objects of one type
MaxSessions == 2
\* the register_schema calls one thread makes
MaxThreadCalls == 2

\* an entry of the map: the key and the lambda, which captures the name and
\* is instantiated for the type whose schema it writes
WriterEntry(name, T) == [name |-> name, writer |-> T, complete |-> TRUE]

Registered(map, name) == \E i \in DOMAIN map : map[i].name = name
Find(map, name) == CHOOSE i \in DOMAIN map : map[i].name = name

\* variant: writers[name] = ..., which replaces the entry of a known name
Insert_or_assign(map, name, T) ==
    IF Registered(map, name)
    THEN [map EXCEPT ![Find(map, name)] = WriterEntry(name, T)]
    ELSE Append(map, WriterEntry(name, T))

\* std::unordered_map::insert: nothing happens when the key is present
Insert(map, name, T) ==
    IF Registered(map, name) THEN map ELSE Append(map, WriterEntry(name, T))

other_than_reg == <<strict_vars, cli_vars, glz_vars, yaml_vars>>

RegInit ==
    /\ m_content = Construct.m_content
    /\ m_root_name = Construct.m_root_name
    /\ m_state = Construct.m_state
    /\ m_root_name_load_policy = Construct.m_root_name_load_policy
    /\ fs = [p \in Paths |-> Missing]
    /\ saved = [p \in Paths |-> NotSaved]
    /\ load_failed = FALSE
    /\ last = Call("construct", NoPath, "ok", "", FALSE)
    /\ schema = <<>>
    /\ rfl_array_view = "none"
    /\ raw_struct = <<>>
    /\ app_options = <<>>
    /\ app_footer = 0
    /\ app_calls = 0
    /\ cli_call = NoCliCall
    /\ GlzIdle
    /\ RegIdle
    /\ YamlIdle

\* static inline Registrar m_registrar: its constructor runs once per T,
\* during static initialisation, and registers Content under T's name
Registrar(T) ==
    /\ ~main_started
    /\ T \notin registrar_done
    /\ registrar_done' = registrar_done \cup {T}
    /\ writers' = Insert(writers, name_v(T), T)
    /\ r_call' = RegCall("Registrar", name_v(T), "ok", "none")
    /\ UNCHANGED <<main_started, sessions, t_pc, t_args, t_calls, other_than_reg>>

\* main begins once every static object is initialised
EnterMain ==
    /\ ~main_started
    /\ registrar_done = Types
    /\ main_started' = TRUE
    /\ r_call' = RegCall("main", "", "ok", "none")
    /\ UNCHANGED <<writers, registrar_done, sessions, t_pc, t_args, t_calls,
                   other_than_reg>>

\* Config() { (void)m_registrar; }
ConstructSession(T) ==
    /\ main_started
    /\ sessions[T] < MaxSessions
    /\ sessions' = [sessions EXCEPT ![T] = @ + 1]
    /\ r_call' = RegCall("Config", name_v(T), "ok", "none")
    /\ UNCHANGED <<writers, registrar_done, main_started, t_pc, t_args, t_calls,
                   other_than_reg>>

\* Registry::register_schema<T>(name) called by the program itself
register_schema(T, name) ==
    /\ main_started
    /\ writers' = Insert(writers, name, T)
    /\ r_call' = RegCall("register_schema", name, "ok", "none")
    /\ UNCHANGED <<registrar_done, main_started, sessions, t_pc, t_args, t_calls,
                   other_than_reg>>

\* Registry::generate_named(dir, name); written: the writer found could
\* generate the schema and write the file
generate_named(op, name, written) ==
    /\ IF ~Registered(writers, name)
       THEN r_call' = RegCall(op, name, "SchemaNameError", "none")
       ELSE r_call' = [RegCall(op, name,
                               IF written THEN "ok" ELSE "SchemaGenerationError",
                               writers[Find(writers, name)].writer)
                         EXCEPT !.invoked = << writers[Find(writers, name)] >>]
    /\ UNCHANGED <<writers, registrar_done, main_started, sessions, t_pc, t_args,
                   t_calls, other_than_reg>>

GenerateNamed(name, written) ==
    /\ main_started
    /\ generate_named("generate_named", name, written)

\* Config<T>::save_schema(dir) on a constructed Config<T>
save_schema(T, written) ==
    /\ main_started
    /\ sessions[T] > 0
    /\ generate_named("save_schema", name_v(T), written)

\* the orders in which a loop over the unordered map may meet its entries
IterationOrders(map) ==
    {order \in [DOMAIN map -> DOMAIN map] :
        \A i, j \in DOMAIN map : i # j => order[i] # order[j]}

\* Registry::generate_all(dir): the writers are called one after the other
\* in the map's order; thrown: the position of the writer that throws, 0
\* when none does; the loop ends at the exception
generate_all(order, thrown) ==
    /\ main_started
    /\ LET n == IF thrown = 0 THEN Len(writers) ELSE thrown
       IN  r_call' = [RegCall("generate_all", "",
                              IF thrown = 0 THEN "ok" ELSE "SchemaGenerationError",
                              "none")
                         EXCEPT !.invoked = [i \in 1..n |-> writers[order[i]]]]
    /\ UNCHANGED <<writers, registrar_done, main_started, sessions, t_pc, t_args,
                   t_calls, other_than_reg>>

RegNext ==
    \/ \E order \in IterationOrders(writers), thrown \in 0..Len(writers) :
          generate_all(order, thrown)
    \/ \E T \in Types : Registrar(T)
    \/ EnterMain
    \/ \E T \in Types : ConstructSession(T)
    \/ \E T \in Types, name \in SchemaNames : register_schema(T, name)
    \/ \E name \in SchemaNames, written \in BOOLEAN : GenerateNamed(name, written)
    \/ \E T \in Types, written \in BOOLEAN : save_schema(T, written)

SpecReg == RegInit /\ [][RegNext]_vars

(***************************************************************************)
(* Registry::register_schema called from several threads.  The function    *)
(* takes no lock: writers.insert is a probe for the key followed by the    *)
(* linking of a new node, and two calls may overlap.                       *)
(***************************************************************************)
\* the map after the registrars of every type ran, in either order
AfterStaticInit(first) ==
    LET second == CHOOSE T \in Types : T # first
    IN  Insert(Insert(<<>>, name_v(first), first), name_v(second), second)

RegMTInit ==
    /\ m_content = Construct.m_content
    /\ m_root_name = Construct.m_root_name
    /\ m_state = Construct.m_state
    /\ m_root_name_load_policy = Construct.m_root_name_load_policy
    /\ fs = [p \in Paths |-> Missing]
    /\ saved = [p \in Paths |-> NotSaved]
    /\ load_failed = FALSE
    /\ last = Call("construct", NoPath, "ok", "", FALSE)
    /\ schema = <<>>
    /\ rfl_array_view = "none"
    /\ raw_struct = <<>>
    /\ app_options = <<>>
    /\ app_footer = 0
    /\ app_calls = 0
    /\ cli_call = NoCliCall
    /\ GlzIdle
    /\ YamlIdle
    /\ \E first \in Types : writers = AfterStaticInit(first)
    /\ registrar_done = Types
    /\ main_started = TRUE
    /\ sessions = [T \in Types |-> 0]
    /\ r_call = RegCall("main", "", "ok", "none")
    /\ t_pc = [t \in Threads |-> "idle"]
    /\ t_args = [t \in Threads |-> NoArgs]
    /\ t_calls = [t \in Threads |-> 0]

\* what linking a node can leave when the key was absent at the probe.  A
\* call that overlaps no other leaves the new entry.  A call that overlaps
\* another writes the buckets while the other reads or writes them, which
\* the language leaves undefined: the outcomes are the serialised one, a
\* second entry under a key linked in between, and a node linked before
\* its contents are written
LinkOutcomes(map, args, overlapped) ==
    LET entry == WriterEntry(args.name, args.T)
    IN  IF ~overlapped
        THEN {Insert(map, args.name, args.T)}
        ELSE {Insert(map, args.name, args.T),
              Append(map, entry),
              Append(map, [entry EXCEPT !.complete = FALSE])}

\* a thread enters register_schema<T>(name): insert probes for the key
BeginInsert(t, T, name) ==
    /\ t_pc[t] = "idle"
    /\ t_calls[t] < MaxThreadCalls
    /\ t_calls' = [t_calls EXCEPT ![t] = @ + 1]
    /\ t_args' = [t_args EXCEPT ![t] = Args(T, name)]
    /\ t_pc' = [t_pc EXCEPT ![t] =
                    IF Registered(writers, name) THEN "present" ELSE "absent"]
    /\ UNCHANGED <<writers, registrar_done, main_started, sessions, r_call,
                   other_than_reg>>

\* the thread leaves insert: the node is linked if the probe found none
EndInsert(t) ==
    /\ t_pc[t] \in {"present", "absent"}
    /\ t_pc' = [t_pc EXCEPT ![t] = "idle"]
    /\ IF t_pc[t] = "present"
       THEN writers' = writers
       ELSE writers' \in LinkOutcomes(writers, t_args[t],
                                      \E u \in Threads \ {t} : t_pc[u] # "idle")
    /\ r_call' = RegCall("register_schema", t_args[t].name, "ok", "none")
    /\ UNCHANGED <<registrar_done, main_started, sessions, t_args, t_calls,
                   other_than_reg>>

RegMTNext ==
    \/ \E t \in Threads, T \in Types, name \in SchemaNames : BeginInsert(t, T, name)
    \/ \E t \in Threads : EndInsert(t)

SpecRegMT == RegMTInit /\ [][RegMTNext]_vars

(***************************************************************************)
(* Properties of extract_error_key and of the parse errors of load.        *)
(*                                                                         *)
(* The line that holds an offset is taken as TOML takes it: it starts      *)
(* after the last '\n' before the offset and runs to the next '\n', which  *)
(* may be preceded by one '\r'; neither belongs to its text.               *)
(***************************************************************************)
Blank(c) == c \in {" ", "\t"}

LineOf(buffer, offset) ==
    LET starts == {0} \cup {i \in 1..offset : buffer[i] = "\n"}
        start == CHOOSE i \in starts : \A j \in starts : j <= i
        ends == {Len(buffer)} \cup {j \in offset..(Len(buffer) - 1) : buffer[j + 1] = "\n"}
        end == CHOOSE i \in ends : \A j \in ends : i <= j
        raw == SubSeq(buffer, start + 1, end)
    IN IF raw # <<>> /\ raw[Len(raw)] = "\r"
       THEN SubSeq(raw, 1, Len(raw) - 1)
       ELSE raw

Trimmed(str) ==
    LET solid == {i \in DOMAIN str : ~Blank(str[i])} IN
    IF solid = {} THEN <<>>
    ELSE SubSeq(str, CHOOSE i \in solid : \A j \in solid : i <= j,
                     CHOOSE i \in solid : \A j \in solid : j <= i)

HasSeparator(line) == \E i \in DOMAIN line : line[i] \in {"=", ":"}

BeforeSeparator(line) ==
    SubSeq(line, 1, (CHOOSE i \in DOMAIN line :
                        /\ line[i] \in {"=", ":"}
                        /\ \A j \in 1..(i - 1) : line[j] \notin {"=", ":"}) - 1)

\* `key = value` or `key: value` with some key, on one line
KeyValueLine(line) ==
    /\ \A i \in DOMAIN line : line[i] # "\r"
    /\ HasSeparator(line)
    /\ Trimmed(BeforeSeparator(line)) # <<>>

\* the call, direct or from load, extracted a key at an offset in the buffer
Extracted == g_call.ec # "none" /\ g_call.location < Len(g_buffer)

\* C21 (key extraction): for every buffer and every offset inside a line of
\* the form `key = value` or `key: value`, extract_error_key returns the text
\* of that line before its first '=' or ':' without the whitespace around it.
C21_ExtractedKey ==
    (Extracted /\ KeyValueLine(LineOf(g_buffer, g_call.location)))
        => g_call.key = Trimmed(BeforeSeparator(LineOf(g_buffer, g_call.location)))

\* the offset lies in the second line, on the key, which a blank follows
C21_Witness ==
    /\ g_call.op = "extract_error_key"
    /\ g_buffer = << "\n", "k", " ", ":" >>
    /\ g_call.location = 2
    /\ g_call.key = << "k" >>

\* C22 (no separator): when the line that holds the offset has neither '='
\* nor ':', extract_error_key returns the whole line without the whitespace
\* around it.
C22_WholeLineTrimmed ==
    (/\ Extracted
     /\ ~HasSeparator(LineOf(g_buffer, g_call.location))
     /\ \A i \in DOMAIN LineOf(g_buffer, g_call.location) :
           LineOf(g_buffer, g_call.location)[i] # "\r")
        => g_call.key = Trimmed(LineOf(g_buffer, g_call.location))

\* C23 (extraction never changes the outcome): a load whose parser reported
\* a failure ends with ConfigParseError and leaves the state as it was,
\* whatever key was extracted; if the reported offset is at or past the end
\* of the buffer, the key is the literal "unknown".
C23_ParseFailureFails ==
    [][ (g_call'.op = "load" /\ g_call'.ec # "none")
            => /\ g_call'.result = "ConfigParseError"
               /\ g_state' = g_state
               /\ g_call'.location >= Len(g_buffer) => g_call'.key = Unknown ]_vars

\* the parser gave up at the very end of a buffer that is not empty
C23_Witness ==
    /\ g_call.op = "load"
    /\ g_call.result = "ConfigParseError"
    /\ g_buffer = << "k", " ", "=" >>
    /\ g_call.location = 3
    /\ g_call.key = Unknown

\* C24 (the strict Session's parse error): a ConfigParseError thrown by the
\* load of the Session with root-name policy and one-shot state carries, next
\* to the path of the file, the offending key.
C24_ParseErrorCarriesKey ==
    [][ (LoadCall /\ last'.result = "ConfigParseError")
            => /\ \E k \in DOMAIN last'.what : last'.what[k] = last'.path
               /\ \E k \in DOMAIN last'.what : last'.what[k] # last'.path ]_vars


(***************************************************************************)
(* The legacy singleton Config over yaml-cpp: loadConfig, get<T>, has      *)
(***************************************************************************)
\* has records a key as unknown on every miss; the list is capped here
MaxUnknownKeys == 3

\* the files of the run: three documents, one that is not YAML, one absent
\*   A:  a: {b: 100}      B:  a: {b: 7}      C:  a: x
\*       level: INFO                             level: INFO
DocumentA ==
    [k \in LegacyKeys |->
        IF k = << "a" >> THEN MapNode
        ELSE IF k = << "a", "b" >> THEN Scalar("100")
        ELSE Scalar("INFO")]
DocumentB ==
    [k \in LegacyKeys |->
        IF k = << "a" >> THEN MapNode
        ELSE IF k = << "a", "b" >> THEN Scalar("7")
        ELSE Undefined]
DocumentC ==
    [k \in LegacyKeys |->
        IF k = << "a" >> THEN Scalar("x")
        ELSE IF k = << "level" >> THEN Scalar("INFO")
        ELSE Undefined]
YamlFiles == {"A.yaml", "B.yaml", "C.yaml", "bad.yaml", "none.yaml"}
LoadFile(configFile) ==
    CASE configFile = "A.yaml" -> [result |-> "ok", root |-> DocumentA]
      [] configFile = "B.yaml" -> [result |-> "ok", root |-> DocumentB]
      [] configFile = "C.yaml" -> [result |-> "ok", root |-> DocumentC]
      [] configFile = "bad.yaml" -> [result |-> "ParserException", root |-> NullDocument]
      [] OTHER -> [result |-> "BadFile", root |-> NullDocument]

\* the requested types and the caller's defaults
LegacyTypes == {"int", "string"}
Defaults(T) == IF T = "int" THEN {IntV(-1)} ELSE {StrV("unset")}

\* YAML::Node::as<T>: a scalar converts to a string as its text and to an
\* int when the text is a number; a map converts to neither
NumText == {"100", "7"}
ParseInt(text) == IF text = "100" THEN 100 ELSE 7
Convertible(node, T) ==
    /\ node.kind = "scalar"
    /\ T = "int" => node.text \in NumText
as(node, T) == IF T = "int" THEN IntV(ParseInt(node.text)) ELSE StrV(node.text)

isKeyInCache(key) == key \in DOMAIN configMap
addToCache(key, node) == (key :> node) @@ configMap
registerUnknownKey(key) == Append(unknownKeys, key)
IsUnknown(key) == \E i \in DOMAIN unknownKeys : unknownKeys[i] = key

getFromCache(key, T, defaultValue) ==
    IF isKeyInCache(key) /\ Convertible(configMap[key], T)
    THEN as(configMap[key], T)
    ELSE defaultValue

\* the loop over the subkeys of key, from the root: node[subKey] on a
\* scalar is a subscript error, on a map without the subkey it is undefined
RECURSIVE Descend(_, _, _, _)
Descend(root, key, i, node) ==
    IF i > Len(key) THEN [outcome |-> "found", node |-> node]
    ELSE IF node.kind = "scalar" THEN [outcome |-> "subscript", node |-> node]
    ELSE IF root[SubSeq(key, 1, i)].kind = "undefined"
         THEN [outcome |-> "absent", node |-> Undefined]
         ELSE Descend(root, key, i + 1, root[SubSeq(key, 1, i)])
Traverse(key) == Descend(yamlRoot, key, 1, MapNode)

other_than_yaml == <<strict_vars, cli_vars, glz_vars, reg_vars>>

YamlInit ==
    /\ m_content = Construct.m_content
    /\ m_root_name = Construct.m_root_name
    /\ m_state = Construct.m_state
    /\ m_root_name_load_policy = Construct.m_root_name_load_policy
    /\ fs = [p \in Paths |-> Missing]
    /\ saved = [p \in Paths |-> NotSaved]
    /\ load_failed = FALSE
    /\ last = Call("construct", NoPath, "ok", "", FALSE)
    /\ schema = <<>>
    /\ rfl_array_view = "none"
    /\ raw_struct = <<>>
    /\ app_options = <<>>
    /\ app_footer = 0
    /\ app_calls = 0
    /\ cli_call = NoCliCall
    /\ GlzIdle
    /\ RegIdle
    /\ YamlIdle

\* Config::loadConfig: the path is kept whatever happens; only BadFile is
\* caught; the cache and the unknown keys are left as they are
loadConfig(configFile) ==
    LET file == LoadFile(configFile)
    IN  /\ configFilePath' = configFile
        /\ IF file.result = "ok"
           THEN /\ yamlRoot' = file.root
                /\ m_loaded' = TRUE
                /\ y_call' = YCall("loadConfig", NoKey, "none", NoValue, "true",
                                   NoValue, FALSE, FALSE)
           ELSE /\ UNCHANGED <<yamlRoot, m_loaded>>
                /\ y_call' = YCall("loadConfig", NoKey, "none", NoValue,
                                   IF file.result = "BadFile" THEN "false"
                                   ELSE "ParserException",
                                   NoValue, FALSE, FALSE)
        /\ UNCHANGED <<configMap, unknownKeys, found, converted, other_than_yaml>>

\* the part of get after the unknown-key check: the cache, then the document
get_lookup(key, T, defaultValue) ==
    IF isKeyInCache(key)
    THEN /\ y_call' = YCall("get", key, T, defaultValue, "returned",
                            getFromCache(key, T, defaultValue), FALSE, TRUE)
         /\ UNCHANGED <<configMap, unknownKeys, found, converted>>
    ELSE LET walk == Traverse(key)
         IN  CASE walk.outcome = "found" ->
                    /\ configMap' = addToCache(key, walk.node)
                    /\ found' = found \cup {key}
                    /\ IF Convertible(walk.node, T)
                       THEN /\ y_call' = YCall("get", key, T, defaultValue, "returned",
                                               as(walk.node, T), TRUE, FALSE)
                            /\ converted' = converted \cup {key}
                            /\ UNCHANGED unknownKeys
                       ELSE /\ y_call' = YCall("get", key, T, defaultValue, "returned",
                                               defaultValue, TRUE, FALSE)
                            /\ unknownKeys' = registerUnknownKey(key)
                            /\ UNCHANGED converted
               [] walk.outcome = "absent" ->
                    /\ unknownKeys' = registerUnknownKey(key)
                    /\ y_call' = YCall("get", key, T, defaultValue, "returned",
                                       defaultValue, TRUE, FALSE)
                    /\ UNCHANGED <<configMap, found, converted>>
               [] OTHER ->
                    \* the subscript of a scalar: yaml-cpp throws BadSubscript
                    \* outside the try, or yields an undefined node
                    \/ /\ y_call' = YCall("get", key, T, defaultValue, "BadSubscript",
                                          NoValue, TRUE, FALSE)
                       /\ UNCHANGED <<configMap, unknownKeys, found, converted>>
                    \/ /\ unknownKeys' = registerUnknownKey(key)
                       /\ y_call' = YCall("get", key, T, defaultValue, "returned",
                                          defaultValue, TRUE, FALSE)
                       /\ UNCHANGED <<configMap, found, converted>>

\* variant: the cache is asked before the unknown keys
get_cache_first(key, T, defaultValue) ==
    /\ IF IsUnknown(key) /\ ~isKeyInCache(key)
       THEN /\ y_call' = YCall("get", key, T, defaultValue, "returned", defaultValue,
                               FALSE, FALSE)
            /\ UNCHANGED <<configMap, unknownKeys, found, converted>>
       ELSE get_lookup(key, T, defaultValue)
    /\ UNCHANGED <<yamlRoot, configFilePath, m_loaded, other_than_yaml>>

\* Config::get<T>(key, defaultValue)
get(key, T, defaultValue) ==
    /\ IF IsUnknown(key)
       THEN /\ y_call' = YCall("get", key, T, defaultValue, "returned", defaultValue,
                               FALSE, FALSE)
            /\ UNCHANGED <<configMap, unknownKeys, found, converted>>
       ELSE get_lookup(key, T, defaultValue)
    /\ UNCHANGED <<yamlRoot, configFilePath, m_loaded, other_than_yaml>>

\* Config::has(key): the unknown keys are not asked; every miss is recorded
has(key) ==
    /\ Len(unknownKeys) < MaxUnknownKeys
    /\ IF ~m_loaded
       THEN /\ y_call' = YCall("has", key, "none", NoValue, "runtime_error", NoValue,
                               FALSE, FALSE)
            /\ UNCHANGED <<configMap, unknownKeys, found>>
       ELSE IF isKeyInCache(key)
       THEN /\ y_call' = YCall("has", key, "none", NoValue, "true", NoValue,
                               FALSE, TRUE)
            /\ UNCHANGED <<configMap, unknownKeys, found>>
       ELSE LET walk == Traverse(key)
            IN  CASE walk.outcome = "found" ->
                       /\ configMap' = addToCache(key, walk.node)
                       /\ found' = found \cup {key}
                       /\ y_call' = YCall("has", key, "none", NoValue, "true", NoValue,
                                          TRUE, FALSE)
                       /\ UNCHANGED unknownKeys
                  [] walk.outcome = "absent" ->
                       /\ unknownKeys' = registerUnknownKey(key)
                       /\ y_call' = YCall("has", key, "none", NoValue, "false", NoValue,
                                          TRUE, FALSE)
                       /\ UNCHANGED <<configMap, found>>
                  [] OTHER ->
                       \/ /\ y_call' = YCall("has", key, "none", NoValue, "BadSubscript",
                                             NoValue, TRUE, FALSE)
                          /\ UNCHANGED <<configMap, unknownKeys, found>>
                       \/ /\ unknownKeys' = registerUnknownKey(key)
                          /\ y_call' = YCall("has", key, "none", NoValue, "false",
                                             NoValue, TRUE, FALSE)
                          /\ UNCHANGED <<configMap, found>>
    /\ UNCHANGED <<yamlRoot, configFilePath, m_loaded, converted, other_than_yaml>>

YamlNext ==
    \/ \E configFile \in YamlFiles : loadConfig(configFile)
    \/ \E key \in LegacyKeys, T \in LegacyTypes :
          \E defaultValue \in Defaults(T) : get(key, T, defaultValue)
    \/ \E key \in LegacyKeys : has(key)

SpecYaml == YamlInit /\ [][YamlNext]_vars

(***************************************************************************)
(* Properties of the schema registry.                                      *)
(***************************************************************************)
EntriesOf(name) == {i \in DOMAIN writers : writers[i].name = name}

C26_SerializedRegistration ==
    /\ \A name \in SchemaNames : Cardinality(EntriesOf(name)) <= 1
    /\ \A i \in DOMAIN writers : writers[i].complete
    /\ \A t \in Threads :
          t_pc[t] = "idle" /\ t_calls[t] > 0 =>
              Cardinality(EntriesOf(t_args[t].name)) = 1

(***************************************************************************)
(* Properties of the legacy singleton Config.                              *)
(***************************************************************************)
\* a step of get, and what the document loaded at the call holds at the key
GetCall == y_call'.op = "get"
Present(key) == Traverse(key).outcome = "found"
InDocument(key, T, defaultValue) ==
    IF Present(key) /\ Convertible(Traverse(key).node, T)
    THEN as(Traverse(key).node, T)
    ELSE defaultValue

\* C27: with a document loaded, every get<T>(key, d) returns the value at
\* key in the document loaded at the call when the path exists and
\* converts to T, and d otherwise, whatever calls came before (a get that
\* ends in a subscript error returns nothing and is left aside).
C27_LegacyLookup ==
    [][(GetCall /\ m_loaded /\ y_call'.outcome = "returned") =>
          y_call'.returned = InDocument(y_call'.key, y_call'.T, y_call'.default)]_vars

\* C28: the keys of the cache are the keys whose full path some get or has
\* found; a get of a present key that is not cached adds exactly that
\* entry, a get of a cached or absent key adds none, and loadConfig removes
\* and changes none.
C28_CacheContent ==
    /\ [](DOMAIN configMap = found)
    /\ [][/\ (GetCall /\ Present(y_call'.key) /\ ~isKeyInCache(y_call'.key)) =>
                DOMAIN configMap' = DOMAIN configMap \cup {y_call'.key}
          /\ (GetCall /\ (isKeyInCache(y_call'.key) \/ ~Present(y_call'.key))) =>
                configMap' = configMap
          /\ y_call'.op = "loadConfig" => configMap' = configMap]_vars

\* C29: a get for a key whose path is absent from the loaded document
\* leaves the key in the unknown-key list, and no key that a get found and
\* converted is in that list.
C29_UnknownKeyList ==
    /\ [][(GetCall /\ y_call'.outcome = "returned" /\ ~Present(y_call'.key)) =>
              \E i \in DOMAIN unknownKeys' : unknownKeys'[i] = y_call'.key]_vars
    /\ [](\A key \in converted : ~IsUnknown(key))

C31_ParseErrorLeavesValue ==
    [][(g_call'.op = "load" /\ g_call'.result = "ConfigParseError") =>
          /\ g_content' = g_content
          /\ g_state' = g_state]_vars

(***************************************************************************)
(* Properties of the order of the tests in load and of the lifecycle state *)
(***************************************************************************)
\* C32: load reports its failures in the order already loaded, file
\* missing, parse failure, root-name mismatch: a loaded Session reads no
\* file and calls no parser whatever the path holds, a missing file is
\* reported before any parsing, and a file that does not parse is reported
\* as such, never as a root-name mismatch.
C32_FailurePrecedence ==
    [][LoadCall =>
          /\ m_state = "LOADED_FROM_FILE" =>
                /\ last'.result = "ConfigLoadError"
                /\ last'.why = "already_loaded"
                /\ ~last'.parser
                /\ fs' = fs
          /\ (m_state # "LOADED_FROM_FILE" /\ FileRead = Missing) =>
                /\ last'.result = "ConfigLoadError"
                /\ last'.why = "file_missing"
                /\ ~last'.parser
          /\ (m_state # "LOADED_FROM_FILE" /\ FileRead # Missing
                /\ ~rfl_toml_load(FileRead).ok) =>
                /\ last'.result = "ConfigParseError"
                /\ last'.why # "root_mismatch"
          /\ last'.why = "root_mismatch" =>
                /\ m_state # "LOADED_FROM_FILE"
                /\ FileRead # Missing
                /\ rfl_toml_load(FileRead).ok]_vars

\* a loaded Session under KEEP_CURRENT asked to load a path that holds no
\* file: two failure conditions at once, the first is reported
C32_Witness ==
    /\ last.op = "load"
    /\ last.why = "already_loaded"
    /\ m_state = "LOADED_FROM_FILE"
    /\ fs[last.path] = Missing

\* C33: a Session starts in DEFAULT; its state changes only in a load that
\* returns normally, which finds DEFAULT and leaves LOADED_FROM_FILE, so
\* the state is LOADED_FROM_FILE exactly when a load of this Session has
\* returned normally, it never goes back, and a second load never returns
\* normally; save, save_schema, set_root_name, set_root_name_load_policy,
\* a stored value and a failed load leave the state alone.
C33_LifecycleState ==
    /\ m_state = "DEFAULT"
    /\ [][/\ last'.op = "construct" => m_state' = "DEFAULT"
          /\ (LoadCall /\ last'.result = "ok") =>
                /\ m_state = "DEFAULT"
                /\ m_state' = "LOADED_FROM_FILE"
          /\ (last'.op # "construct" /\ ~(LoadCall /\ last'.result = "ok")) =>
                m_state' = m_state]_vars

\* the schema was written for a Session that was loaded before
C33_Witness ==
    /\ last.op = "save_schema"
    /\ last.result = "ok"
    /\ m_state = "LOADED_FROM_FILE"
    /\ m_content # DefaultT

\* C34: after a load that returned normally the root name is a root key of
\* the file read (the root key, when the file has one root table) and the
\* live value is the value under that key; under KEEP_CURRENT the root
\* name is the one the Session had before the call.
C34_RootNameAfterLoad ==
    [][(LoadCall /\ last'.result = "ok") =>
          /\ HasKey(FileRead.roots, m_root_name')
          /\ Len(FileRead.roots) = 1 => m_root_name' = FileRead.roots[1].key
          /\ m_root_name_load_policy = "KEEP_CURRENT" => m_root_name' = m_root_name]_vars

\* both policies: a file rooted at "other" loaded under KEEP_CURRENT by a
\* Session named "other"
C34_Witness ==
    /\ last.op = "load"
    /\ last.result = "ok"
    /\ m_root_name_load_policy = "KEEP_CURRENT"
    /\ m_root_name = "other"
    /\ Len(fs[last.path].roots) = 1
    /\ fs[last.path].roots[1].key = "other"

(***************************************************************************)
(* Properties of the lookups of the registry.                              *)
(***************************************************************************)
\* how many times a call invoked the writer of an entry
Invocations(call, entry) ==
    Cardinality({i \in DOMAIN call.invoked : call.invoked[i] = entry})

\* generate_named and register_schema, as C35 states them
NamedLookup ==
    /\ (r_call'.op \in {"generate_named", "save_schema"}
          /\ ~Registered(writers, r_call'.name)) =>
          /\ r_call'.result = "SchemaNameError"
          /\ r_call'.invoked = << >>
    /\ (r_call'.op \in {"generate_named", "save_schema"}
          /\ Registered(writers, r_call'.name)) =>
          /\ r_call'.result # "SchemaNameError"
          /\ r_call'.invoked = << writers[Find(writers, r_call'.name)] >>
    /\ (r_call'.op = "register_schema" /\ Registered(writers, r_call'.name)) =>
          writers' = writers

HasCall == y_call'.op = "has"

\* C36: has raises an error exactly when no loadConfig has succeeded;
\* otherwise it returns true exactly when the key is cached or its path
\* is in the loaded document, caches the key on a fresh hit and records it
\* as unknown on a miss; a loadConfig that fails returns false and leaves
\* the document, the cache and the loaded flag as they were.
C36_HasAndFailedLoad ==
    [][/\ HasCall =>
             /\ y_call'.outcome \notin {"true", "false"} <=> ~m_loaded
             /\ m_loaded =>
                   /\ y_call'.outcome = "true" <=>
                         (isKeyInCache(y_call'.key) \/ Present(y_call'.key))
                   /\ (~isKeyInCache(y_call'.key) /\ Present(y_call'.key)) =>
                         configMap' = addToCache(y_call'.key, Traverse(y_call'.key).node)
                   /\ (~isKeyInCache(y_call'.key) /\ ~Present(y_call'.key)) =>
                         \E i \in DOMAIN unknownKeys' : unknownKeys'[i] = y_call'.key
       /\ (y_call'.op = "loadConfig" /\ LoadFile(configFilePath').result # "ok") =>
             /\ y_call'.outcome = "false"
             /\ yamlRoot' = yamlRoot
             /\ configMap' = configMap
             /\ m_loaded' = m_loaded]_vars

\* C37: no key is at the same time in the cache and in the unknown-key list.
C37_CacheAndUnknownDisjoint ==
    \A key \in DOMAIN configMap : ~IsUnknown(key)

\* C38: the unknown-key list holds no key twice.
C38_UnknownKeysDistinct ==
    \A i, j \in DOMAIN unknownKeys : unknownKeys[i] = unknownKeys[j] => i = j

(***************************************************************************)
(* Bounds of extract_error_key.                                            *)
(***************************************************************************)
\* the piece of the buffer the function takes for the line of an offset:
\* from behind the last '\n' before the offset to the first '\n' or '\r'
\* at or after it
LineAround(buffer, offset) ==
    LET starts == {0} \cup {i \in 1..offset : buffer[i] = "\n"}
        start == CHOOSE i \in starts : \A j \in starts : j <= i
        ends == {Len(buffer)} \cup
                {j \in offset..(Len(buffer) - 1) : buffer[j + 1] \in {"\n", "\r"}}
        end == CHOOSE i \in ends : \A j \in ends : i <= j
    IN SubSeq(buffer, start + 1, end)

Whitespace(c) == c \in {" ", "\t", "\r"}

\* C39: for every buffer and every offset extract_error_key ends after
\* scans that stay between the start and the end of the buffer, reads the
\* buffer at valid indexes only, and returns a text without '\n'; when the
\* line has a separator with nothing but whitespace before it, the result
\* is the whole line and not an empty key.
C39_ExtractionBounds ==
    (g_call.op \in {"extract_error_key", "load"} /\ g_call.ec # "none") =>
        /\ BufferReads(g_buffer, g_call.location) \subseteq 0..(Len(g_buffer) - 1)
        /\ \A i \in DOMAIN g_call.key : g_call.key[i] # "\n"
        /\ g_call.location < Len(g_buffer) =>
              /\ LineStart(g_buffer, g_call.location) \in 0..g_call.location
              /\ LineEnd(g_buffer, g_call.location) \in g_call.location..Len(g_buffer)
              /\ g_call.key # << >> \/ LineAround(g_buffer, g_call.location) = << >>
              /\ ( /\ HasSeparator(LineAround(g_buffer, g_call.location))
                   /\ \A i \in DOMAIN BeforeSeparator(LineAround(g_buffer, g_call.location)) :
                         Whitespace(BeforeSeparator(LineAround(g_buffer, g_call.location))[i]) )
                 => g_call.key = LineAround(g_buffer, g_call.location)

\* the offset is on the '=' of a first line that starts with a blank: the
\* key part is all whitespace and the line itself comes back
C39_Witness ==
    /\ g_call.op = "extract_error_key"
    /\ g_buffer = << " ", "=", "\n", "k" >>
    /\ g_call.location = 1
    /\ g_call.key = << " ", "=" >>

====
